---- MODULE Spec2Model ----
(***************************************************************************)
(* A model of the two engines of the YouTube comment sentiment dashboard:  *)
(*   - GeminiSentimentAnalyzer (src/sentiment_analyzer.py): the sliding-   *)
(*     window rate limiter, the parsing of the model's response text and   *)
(*     the batch loop;                                                     *)
(*   - YouTubeCommentExtractor (src/youtube_extractor.py): get_comments.   *)
(* Each engine has its own specification over the module's variables.      *)
(***************************************************************************)
EXTENDS Integers, Sequences, FiniteSets, TLC

(***************************************************************************)
(* Program constants.                                                      *)
(***************************************************************************)
\* self.rate_limit = 15 (requests per minute)
rate_limit == 15
\* timedelta(minutes=1), in seconds
Window == 60
\* maxResults = min(100, ...) of the thread and reply requests
PageSize == 100
\* if page_count >= 10: the page limit of get_comments
MaxPages == 10
\* maxResults = min(50, ...) of the search request
SearchPageSize == 50

(***************************************************************************)
(* Bounds of the model.                                                    *)
(***************************************************************************)
\* the wall clock runs from 0 to MaxTime seconds
MaxTime == 120
\* analyze_sentiment is called at most MaxCalls times on one instance
MaxCalls == 17
\* the amounts of time, in seconds, that may pass between two steps
Delays == {30, 60}
\* batch_analyze gets at most MaxRows rows, in batches of at most MaxBatchSize
MaxRows == 4
MaxBatchSize == 3
\* get_comments is asked for at most MaxRequested comments
MaxRequested == 2
\* upstream reports at most MaxAvailable comments
MaxAvailable == 2
\* a page holds at most MaxThreads threads, a thread MaxReplies replies
MaxThreads == 2
MaxReplies == 2
\* the search response holds at most MaxSearchItems items
MaxSearchItems == 1
\* the parts of a URL
MaxUrlParts == 5

VARIABLES
    now,                \* datetime.now(): the wall clock, in seconds
    request_timestamps, \* self.request_timestamps: deque(maxlen = rate_limit)
    dispatched,         \* every timestamp ever appended, in order (history)
    apc,                \* where the current analyze_sentiment call stands
    calls,              \* number of analyze_sentiment calls started
    waited,             \* the duration the last rate-limit check slept
    response,           \* what the model call of the current invocation gave
    result,             \* the record the last analyze_sentiment call returned
    \* batch_analyze
    comments_df,        \* the texts of the rows of the input DataFrame
    batch_size,         \* the batch_size argument
    bi,                 \* i of the loop over the batches
    bj,                 \* j of the loop over the rows of a batch
    batch_results,      \* the list batch_results
    results,            \* the list results
    classified,         \* every analyze_sentiment call made, in order (history)
    columns,            \* the sentiment, score, explanation columns assigned
    bpc,                \* where batch_analyze stands
    \* get_comments
    video_url,          \* the video_url argument
    video_id,           \* what extract_video_id returned
    max_comments,       \* the max_comments argument
    extract_main,       \* the extract_main argument
    extract_replies,    \* the extract_replies argument
    comments,           \* the list comments
    next_page_token,    \* next_page_token: 0 is None, k the cursor page k gave
    total_available,    \* total_available
    extraction_info,    \* the dict extraction_info
    page_count,         \* page_count
    empty_response,     \* empty_response
    items_left,         \* the items of response['items'] not yet looked at
    response_token,     \* whether the response holds a nextPageToken
    replies_left,       \* the items of replies['items'] not yet looked at
    parent_author,      \* the author of the thread whose replies are looked at
    page_attempts,      \* the commentThreads requests of the step just taken and their outcomes (history)
    item,               \* the thread the step just taken has looked at and what the request for its replies gave, where the steps are kept on record; NoItem otherwise (history)
    key_error,          \* where the step just taken caught a KeyError, where the steps are kept on record: "thread" (line 242), "reply" (line 237), or "none" (history)
    search_outcome,     \* what the alternative step met
    apis_called,        \* the upstream methods called so far (history)
    last_request,       \* the last request the step just taken sent upstream; that for the replies of a thread where the steps are kept on record (history)
    error,              \* the exception get_comments raised, or "none"
    epc                 \* where get_comments stands

vars == <<now, request_timestamps, dispatched, apc, calls, waited,
          response, result,
          comments_df, batch_size, bi, bj, batch_results, results,
          classified, columns, bpc,
          video_url, video_id, max_comments, extract_main, extract_replies,
          comments,
          next_page_token, total_available, extraction_info, page_count,
          empty_response, items_left, response_token, replies_left,
          parent_author, page_attempts, item, key_error, search_outcome,
          apis_called,
          last_request, error, epc>>

extractVars == <<video_url, video_id, max_comments, extract_main,
                 extract_replies,
                 comments, next_page_token, total_available, extraction_info,
                 page_count, empty_response, items_left, response_token,
                 replies_left, parent_author, page_attempts, item, key_error,
                 search_outcome,
                 apis_called, last_request, error, epc>>

batchVars == <<comments_df, batch_size, bi, bj, batch_results, results,
               classified, columns, bpc>>

analyzerVars == <<now, request_timestamps, dispatched, apc, calls, waited,
                  response, result>>

(***************************************************************************)
(* The model's response text.  A text is a sequence of lexemes (tokens);   *)
(* white space between them is not kept.  A token is a record              *)
(*   k: its kind; s: its characters (strings and words) or its written     *)
(*   form (numbers: "dec" with a decimal point, "int" without);            *)
(*   n: its value (numbers, in tenths: 8 is 0.8, -10 is -1).               *)
(***************************************************************************)
Tok(k, s, n) == [k |-> k, s |-> s, n |-> n]
LBrace    == Tok("{", "", 0)
RBrace    == Tok("}", "", 0)
LBracket  == Tok("[", "", 0)
RBracket  == Tok("]", "", 0)
Colon     == Tok(":", "", 0)
Comma     == Tok(",", "", 0)
NullTok   == Tok("null", "", 0)
FenceJson == Tok("fence_json", "", 0)
Fence     == Tok("fence", "", 0)
StrTok(s) == Tok("str", s, 0)
NumTok(n, form) == Tok("num", form, n)
\* a word of prose, outside any string literal
Word(w)   == Tok("word", w, 0)

(***************************************************************************)
(* Decoded JSON values (what json.loads returns), one record shape for all:*)
(*   t: "obj" (dict), "arr" (list), "str", "num", "null";                  *)
(*   s: the characters of a str; n: the value of a num, in tenths;         *)
(*   o: the <<key, value>> pairs of an obj, the elements of an arr.        *)
(***************************************************************************)
JObj(pairs) == [t |-> "obj", s |-> "", n |-> 0, o |-> pairs]
JArr(elems) == [t |-> "arr", s |-> "", n |-> 0, o |-> elems]
JStr(s)     == [t |-> "str", s |-> s, n |-> 0, o |-> <<>>]
JNum(n)     == [t |-> "num", s |-> "", n |-> n, o |-> <<>>]
JNull       == [t |-> "null", s |-> "", n |-> 0, o |-> <<>>]

\* key in dict
HasKey(v, key) == \E i \in DOMAIN v.o : v.o[i][1] = key

\* dict[key]: of two members with one key, json.loads keeps the last
GetKey(v, key) ==
    LET last == CHOOSE i \in DOMAIN v.o :
                   /\ v.o[i][1] = key
                   /\ \A j \in DOMAIN v.o : v.o[j][1] = key => j <= i
    IN  v.o[last][2]

\* dict[key] = value: the key is set, or added after the others
SetKey(v, key, val) ==
    IF HasKey(v, key)
    THEN JObj([i \in DOMAIN v.o |->
                  IF v.o[i][1] = key THEN <<key, val>> ELSE v.o[i]])
    ELSE JObj(Append(v.o, <<key, val>>))

(***************************************************************************)
(* json.loads, by recursive descent over the tokens.                       *)
(***************************************************************************)
ParseFail == [ok |-> FALSE, v |-> JNull, next |-> 0]
ParseOk(v, next) == [ok |-> TRUE, v |-> v, next |-> next]

IsTok(t, i, k) == i <= Len(t) /\ t[i].k = k

RECURSIVE ParseValue(_, _), ParseMembers(_, _, _), ParseElements(_, _, _)
\* value := object | array | string | number | null
ParseValue(t, i) ==
    IF i > Len(t) THEN ParseFail
    ELSE CASE t[i].k = "str"  -> ParseOk(JStr(t[i].s), i + 1)
           [] t[i].k = "num"  -> ParseOk(JNum(t[i].n), i + 1)
           [] t[i].k = "null" -> ParseOk(JNull, i + 1)
           [] t[i].k = "{"    -> IF IsTok(t, i + 1, "}")
                                 THEN ParseOk(JObj(<<>>), i + 2)
                                 ELSE ParseMembers(t, i + 1, <<>>)
           [] t[i].k = "["    -> IF IsTok(t, i + 1, "]")
                                 THEN ParseOk(JArr(<<>>), i + 2)
                                 ELSE ParseElements(t, i + 1, <<>>)
           [] OTHER           -> ParseFail

\* members := string ":" value ("," members | "}")
ParseMembers(t, i, acc) ==
    IF IsTok(t, i, "str") /\ IsTok(t, i + 1, ":")
    THEN LET r == ParseValue(t, i + 2)
         IN  IF ~r.ok THEN ParseFail
             ELSE IF IsTok(t, r.next, ",")
             THEN ParseMembers(t, r.next + 1, Append(acc, <<t[i].s, r.v>>))
             ELSE IF IsTok(t, r.next, "}")
             THEN ParseOk(JObj(Append(acc, <<t[i].s, r.v>>)), r.next + 1)
             ELSE ParseFail
    ELSE ParseFail

\* elements := value ("," elements | "]")
ParseElements(t, i, acc) ==
    LET r == ParseValue(t, i)
    IN  IF ~r.ok THEN ParseFail
        ELSE IF IsTok(t, r.next, ",")
        THEN ParseElements(t, r.next + 1, Append(acc, r.v))
        ELSE IF IsTok(t, r.next, "]")
        THEN ParseOk(JArr(Append(acc, r.v)), r.next + 1)
        ELSE ParseFail

\* json.loads(s): one value and nothing after it, else JSONDecodeError
JsonLoads(t) ==
    LET r == ParseValue(t, 1)
    IN  IF r.ok /\ r.next = Len(t) + 1 THEN r ELSE ParseFail

(***************************************************************************)
(* The string operations of analyze_sentiment.                             *)
(***************************************************************************)
\* str.lower(), on the words the texts are made of
Lower(s) ==
    CASE s = "Positivo"  -> "positivo"
      [] s = "POSITIVE"  -> "positive"
      [] s = "Negativo"  -> "negativo"
      [] s = "Negative"  -> "negative"
      [] s = "Resultado" -> "resultado"
      [] OTHER           -> s

\* str.replace on the characters of a string literal or a word: [fence]
\* stands for a code-fence marker written inside it
Unfenced(s) ==
    CASE s = "cita [fence]codigo[fence]" -> "cita codigo"
      [] OTHER                            -> s

\* line 92: the code-fence markers, with and without "json", are removed,
\* wherever they are in the text
StripFences(t) ==
    LET kept == SelectSeq(t, LAMBDA x : x.k \notin {"fence_json", "fence"})
    IN  [i \in DOMAIN kept |->
            IF kept[i].k \in {"str", "word"}
            THEN Tok(kept[i].k, Unfenced(kept[i].s), 0)
            ELSE kept[i]]

\* keyword in json_str.lower(): some string or word of the text holds it
ContainsKeyword(t, keyword) ==
    \E i \in DOMAIN t : t[i].k \in {"str", "word"} /\ Lower(t[i].s) = keyword

\* re.search(r'\{.*\}', json_str, re.DOTALL): from the first "{" to the last
\* "}" after it
HasBraceMatch(t) ==
    \E a, b \in DOMAIN t : a < b /\ t[a].k = "{" /\ t[b].k = "}"

BraceMatch(t) ==
    LET a == CHOOSE i \in DOMAIN t :
                 t[i].k = "{" /\ \A j \in DOMAIN t : t[j].k = "{" => i <= j
        b == CHOOSE i \in DOMAIN t :
                 t[i].k = "}" /\ \A j \in DOMAIN t : t[j].k = "}" => j <= i
    IN  SubSeq(t, a, b)

\* the places where re.search(r'"<key>"\s*:\s*"([^"]+)"', json_str) matches
StringFieldAt(t, key) ==
    {i \in DOMAIN t : /\ t[i] = StrTok(key)
                      /\ IsTok(t, i + 1, ":")
                      /\ IsTok(t, i + 2, "str")
                      /\ t[i + 2].s # ""}

\* the places where r'"score"\s*:\s*([-+]?\d*\.\d+|\d+)' matches: a number
\* with a decimal point, signed or not, or an unsigned run of digits
ScoreFieldAt(t) ==
    {i \in DOMAIN t : /\ t[i] = StrTok("score")
                      /\ IsTok(t, i + 1, ":")
                      /\ IsTok(t, i + 2, "num")
                      /\ (t[i + 2].s = "dec" \/ t[i + 2].n >= 0)}

Min(S) == CHOOSE x \in S : \A y \in S : x <= y

\* lines 114-126: each field is searched on its own; one not found gets
\* its default
FieldExtraction(t) ==
    LET sm == StringFieldAt(t, "sentiment")
        cm == ScoreFieldAt(t)
        em == StringFieldAt(t, "explanation")
    IN  JObj(<< <<"sentiment",
                  IF sm # {} THEN JStr(t[Min(sm) + 2].s) ELSE JStr("neutro")>>,
                <<"score",
                  IF cm # {} THEN JNum(t[Min(cm) + 2].n) ELSE JNum(0)>>,
                <<"explanation",
                  IF em # {} THEN JStr(t[Min(em) + 2].s)
                  ELSE JStr("Nao foi possivel extrair explicacao")>> >>)

\* the keywords looked for in the other order
KeywordSniffNegativeFirst(t) ==
    LET guess == IF ContainsKeyword(t, "negativo") THEN <<"negativo", -7>>
                 ELSE IF ContainsKeyword(t, "positivo") THEN <<"positivo", 7>>
                 ELSE <<"neutro", 0>>
    IN  JObj(<< <<"sentiment", JStr(guess[1])>>,
                <<"score", JNum(guess[2])>>,
                <<"explanation",
                  JStr("Analise baseada em texto nao estruturado devido a erro de formatacao JSON")>> >>)

\* lines 130-144: no brace-delimited part, the text is searched for keywords
KeywordSniff(t) ==
    LET guess == IF ContainsKeyword(t, "positivo") THEN <<"positivo", 7>>
                 ELSE IF ContainsKeyword(t, "negativo") THEN <<"negativo", -7>>
                 ELSE <<"neutro", 0>>
    IN  JObj(<< <<"sentiment", JStr(guess[1])>>,
                <<"score", JNum(guess[2])>>,
                <<"explanation",
                  JStr("Analise baseada em texto nao estruturado devido a erro de formatacao JSON")>> >>)

\* lines 95-145: strict decoding, then the brace-delimited part, then the
\* fields one by one, then the keywords
Decode(t) ==
    LET whole == JsonLoads(t)
    IN  IF whole.ok THEN whole.v
        ELSE IF HasBraceMatch(t)
        THEN LET part == JsonLoads(BraceMatch(t))
             IN  IF part.ok THEN part.v ELSE FieldExtraction(t)
        ELSE KeywordSniff(t)

\* lines 148-158: the fields the decoded dict lacks get their defaults
FillDefaults(v) ==
    LET a == IF HasKey(v, "sentiment") THEN v
             ELSE SetKey(v, "sentiment", JStr("neutro"))
        b == IF HasKey(a, "score") THEN a ELSE SetKey(a, "score", JNum(0))
    IN  IF HasKey(b, "explanation") THEN b
        ELSE SetKey(b, "explanation", JStr("Nao foi fornecida explicacao"))

\* the label compared as it is written, without lower()
NormalizeCaseSensitive(label) ==
    IF label \in {"positivo", "positive"} THEN "positivo"
    ELSE IF label \in {"negativo", "negative"} THEN "negativo"
    ELSE "neutro"

\* lines 161-166: the label is brought to one of the three canonical ones
Normalize(label) ==
    IF Lower(label) \in {"positivo", "positive"} THEN "positivo"
    ELSE IF Lower(label) \in {"negativo", "negative"} THEN "negativo"
    ELSE "neutro"

\* the record analyze_sentiment returns: the explanation is the sequence of
\* the parts it is put together from
Record(sentiment, score, explanation) ==
    [sentiment |-> sentiment, score |-> score, explanation |-> explanation]

\* the error record without the exception's message
ErrorRecordNoDetail(msg) ==
    Record("erro", JNum(0), <<JStr("Erro na analise: ")>>)

\* lines 170-176: the record returned when anything raised
ErrorRecord(msg) ==
    Record("erro", JNum(0), <<JStr("Erro na analise: "), JStr(msg)>>)

\* lines 147-168 on the decoded value.  What is no dict makes the field
\* checks or the item assignment raise TypeError; a sentiment that is no
\* string has no lower() (AttributeError); the handler of line 170 catches
\* both.
PostProcess(v) ==
    IF v.t # "obj" THEN ErrorRecord("TypeError")
    ELSE LET d == FillDefaults(v)
         IN  IF GetKey(d, "sentiment").t # "str"
             THEN ErrorRecord("AttributeError")
             ELSE Record(Normalize(GetKey(d, "sentiment").s),
                         GetKey(d, "score"),
                         <<GetKey(d, "explanation")>>)

\* what the model call gave: a text, or an exception with its message
Answer(text)  == [ok |-> TRUE, text |-> text, msg |-> ""]
Failure(msg)  == [ok |-> FALSE, text |-> <<>>, msg |-> msg]
NoResponse    == [ok |-> FALSE, text |-> <<>>, msg |-> "none"]
NoResult      == Record("none", JNull, <<>>)

\* lines 83-176: the try block of analyze_sentiment after the model call
AnalyzeResult(r) ==
    IF r.ok THEN PostProcess(Decode(StripFences(r.text)))
    ELSE ErrorRecord(r.msg)

(***************************************************************************)
(* The response texts the checks run over.                                 *)
(***************************************************************************)
RECURSIVE Join(_)
\* the members of an object, with a comma between two of them
Join(ms) ==
    IF ms = <<>> THEN <<>>
    ELSE IF Len(ms) = 1 THEN ms[1]
    ELSE ms[1] \o <<Comma>> \o Join(Tail(ms))

RECURSIVE Concat(_)
Concat(ms) == IF ms = <<>> THEN <<>> ELSE ms[1] \o Concat(Tail(ms))

\* what the model may write as the value of each field; <<>>: no such field
SentimentValues ==
    {<<>>, <<StrTok("positivo")>>, <<StrTok("Positivo")>>,
     <<StrTok("POSITIVE")>>, <<StrTok("negativo")>>, <<StrTok("Negative")>>,
     <<StrTok("neutro")>>, <<StrTok("misto")>>, <<StrTok("")>>,
     <<NumTok(10, "int")>>, <<NullTok>>, <<LBracket, RBracket>>}
ScoreValues ==
    {<<>>, <<NumTok(8, "dec")>>, <<NumTok(-7, "dec")>>, <<NumTok(-10, "int")>>,
     <<NumTok(10, "int")>>, <<NumTok(15, "dec")>>, <<StrTok("0.8")>>,
     <<NullTok>>}
ExplanationValues ==
    {<<>>, <<StrTok("x")>>, <<StrTok("")>>, <<NullTok>>,
     <<StrTok("cita [fence]codigo[fence]")>>}

Member(key, val) ==
    IF val = <<>> THEN <<>> ELSE << <<StrTok(key), Colon>> \o val >>

Members(s, c, e) ==
    Member("sentiment", s) \o Member("score", c) \o Member("explanation", e)

\* a well-formed object, one with a comma after its last member, one with
\* no comma between its members
ObjectTexts ==
    UNION {{<<LBrace>> \o Join(Members(s, c, e)) \o <<RBrace>>,
            <<LBrace>> \o Join(Members(s, c, e)) \o <<Comma, RBrace>>,
            <<LBrace>> \o Concat(Members(s, c, e)) \o <<RBrace>>} :
           s \in SentimentValues, c \in ScoreValues, e \in ExplanationValues}

CanonicalText ==
    <<LBrace>> \o Join(Members(<<StrTok("positivo")>>, <<NumTok(8, "dec")>>,
                               <<StrTok("x")>>)) \o <<RBrace>>

\* JSON that is no object of the three fields, and text of other kinds
OtherTexts ==
    {<<>>,
     <<LBracket, RBracket>>,
     <<LBracket, StrTok("sentiment"), Comma, StrTok("score"), Comma,
       StrTok("explanation"), RBracket>>,
     <<StrTok("positivo")>>,
     <<NumTok(8, "dec")>>,
     <<NullTok>>,
     <<LBrace, StrTok("result"), Colon>> \o CanonicalText \o <<RBrace>>,
     CanonicalText \o CanonicalText,
     <<LBrace, Word("positivo"), RBrace>>,
     <<RBrace, Word("negativo"), LBrace>>,
     <<LBrace, Word("Negativo")>>,
     <<Word("Resultado"), Colon, Word("positivo"), Comma, Word("sem"),
       Word("JSON"), Word("valido")>>,
     <<Word("Resultado"), Colon, Word("Negativo")>>,
     <<Word("negativo"), Word("ou"), Word("Positivo")>>,
     <<Word("POSITIVE")>>,
     <<Word("sem"), Word("resposta")>>}

\* a text as it is, between code-fence markers, after prose, before prose
Wrappings(t) ==
    {t,
     <<FenceJson>> \o t \o <<Fence>>,
     <<Word("Resultado"), Colon>> \o t,
     t \o <<Word("negativo")>>}

Texts == UNION {Wrappings(t) : t \in ObjectTexts \cup OtherTexts}

\* str(e) of the exceptions the model call raises
FailureMessages ==
    {"quota exceeded", "network unreachable", "API key not valid"}

ModelResponses ==
    {Answer(t) : t \in Texts} \cup {Failure(m) : m \in FailureMessages}

\* the answers of the model in the runs that are about time
RateResponses == {Answer(CanonicalText), Failure("quota exceeded")}

(***************************************************************************)
(* YouTubeCommentExtractor.extract_video_id.  A URL is the sequence of its *)
(* parts: each part is one of the prefixes the patterns look for, a run of *)
(* the characters [\w-], or other text.                                    *)
(***************************************************************************)
UrlPart(k, s) == [k |-> k, s |-> s]
\* the patterns, in the order of the list of lines 32-36
Patterns ==
    << {"youtube.com/watch?v=", "youtu.be/"},
       {"youtube.com/embed/"},
       {"youtube.com/v/"} >>

NoVideoId == "None"

\* re.search(pattern, url): the leftmost place where one of the prefixes of
\* the pattern is followed by a run of [\w-]
PatternMatches(url, p) ==
    {i \in DOMAIN url : /\ url[i].k = "text"
                        /\ url[i].s \in Patterns[p]
                        /\ i + 1 <= Len(url)
                        /\ url[i + 1].k = "id"}

\* a resolution that takes the last part of the URL as the identifier
LastPartAsId(url) == url[Len(url)].s

\* a resolution that takes the leftmost match of any of the patterns
LeftmostMatchOfAny(url) ==
    LET places == UNION {PatternMatches(url, p) : p \in DOMAIN Patterns}
    IN  IF places = {} THEN NoVideoId ELSE url[Min(places) + 1].s

\* lines 38-43: the first pattern that matches gives the identifier
extract_video_id(url) ==
    LET matching == {p \in DOMAIN Patterns : PatternMatches(url, p) # {}}
    IN  IF matching = {} THEN NoVideoId
        ELSE url[Min(PatternMatches(url, Min(matching))) + 1].s

WatchUrl ==
    <<UrlPart("text", "https://www."), UrlPart("text", "youtube.com/watch?v="),
      UrlPart("id", "ABC123")>>
OtherUrl ==
    <<UrlPart("text", "https://example.com/"), UrlPart("id", "notavideo")>>

\* the parts URLs are made of: the prefixes of the patterns and other text
\* that begins with a character of [\w-] ("text"), text that begins with
\* another character ("sep"), and runs of [\w-] ("id"); each of the texts
\* ends in a character outside [\w-]
UrlParts ==
    {UrlPart("text", t) : t \in {"youtube.com/watch?v=", "youtu.be/",
                                 "youtube.com/embed/", "youtube.com/v/",
                                 "https://www.", "https://example.com/"}}
    \cup {UrlPart("sep", "&next=")}
    \cup {UrlPart("id", t) : t \in {"ABC123", "notavideo"}}

PatternPrefixes == UNION {Patterns[p] : p \in DOMAIN Patterns}

\* the URLs: a run of [\w-] is one whole part, so what follows an
\* identifier begins outside [\w-], and so does a text that follows a prefix
\* of a pattern
Urls ==
    {u \in UNION {[1..n -> UrlParts] : n \in 1..MaxUrlParts} :
        \A i \in 1..(Len(u) - 1) :
            /\ u[i].k = "id" => u[i + 1].k = "sep"
            /\ u[i].s \in PatternPrefixes => u[i + 1].k # "text"}

(***************************************************************************)
(* YouTubeCommentExtractor.get_comments                                    *)
(***************************************************************************)
\* an entry of extraction_info["reasons"]: its text, the number and the
\* exception message the text is formatted with
Reason(text, n, msg) == [text |-> text, n |-> n, msg |-> msg]

NoCommentsReason == Reason("O video nao tem comentarios disponiveis.", 0, "")
OnlyAvailableReason(a) ==
    Reason("O video tem apenas N comentarios disponiveis.", a, "")
OnlyRepliesReason ==
    Reason("Configurado para extrair apenas respostas aos comentarios.", 0, "")
OnlyMainReason ==
    Reason("Configurado para extrair apenas comentarios principais.", 0, "")
NoTypeReason ==
    Reason("Nenhum tipo de comentario selecionado para extracao.", 0, "")
EmptyPageReason ==
    Reason("A API do YouTube retornou uma pagina vazia de comentarios.", 0, "")
PageLimitReason == Reason("Limite de paginas atingido (10 paginas).", 0, "")
FilteredReason ==
    Reason("Alguns comentarios podem ter sido filtrados pela API do YouTube.",
           0, "")
TryingAlternativeReason ==
    Reason("Tentando metodo alternativo para extrair mais comentarios...",
           0, "")
AlternativeFailedReason(msg) == Reason("Metodo alternativo falhou: ", 0, msg)
NotAllReason ==
    Reason("Nao foi possivel extrair todos os comentarios disponiveis.", 0, "")
LimitationsReason ==
    Reason("A API do YouTube tem limitacoes conhecidas na extracao de comentarios.",
           0, "")
ApiErrorReason(msg) == Reason("Erro na API do YouTube: ", 0, msg)

\* comment.get('authorDisplayName', 'Anonimo')
AuthorOf(a) == IF a = "missing" THEN "Anonimo" ELSE a

\* the dicts appended to comments; parent_author is <<>> where the dict has
\* no such key
PrincipalComment(author) ==
    [type |-> "principal", author |-> AuthorOf(author), text |-> "texto",
     parent_author |-> <<>>]
ReplyComment(author, parent) ==
    [type |-> "resposta", author |-> AuthorOf(author), text |-> "texto",
     parent_author |-> <<AuthorOf(parent)>>]
AlternativeComment(text) ==
    [type |-> "alternativo", author |-> "canal", text |-> text,
     parent_author |-> <<>>]

Smaller(a, b) == IF a < b THEN a ELSE b

\* what upstream may return as one comment thread:
\*   top: the top-level comment has a text ("ok"), a text of white space
\*        ("blank"), no textDisplay ("notext"), or the item lacks a part of
\*        item['snippet']['topLevelComment']['snippet'] ("broken");
\*   author: its authorDisplayName, or "missing";
\*   replies: its totalReplyCount; has_id: the item has an 'id'
Threads ==
    {th \in [top : {"ok", "blank", "notext", "broken"},
             author : {"ana", "missing"},
             replies : {0, 1},
             has_id : BOOLEAN] :
        /\ th.top = "broken" => (th.author = "missing" /\ th.replies = 0)
        /\ th.replies = 0 => th.has_id}

\* what upstream may return as one reply: its snippet has a text, a text of
\* white space, no textDisplay, or the reply has no snippet; the replies
\* that are kept come with an authorDisplayName, which no step looks at
Replies ==
    {r \in [form : {"ok", "blank", "notext", "broken"},
            author : {"bia", "missing"}] :
        (r.form = "ok") <=> (r.author = "bia")}

\* what comments().list may give: an HttpError ("error"), an exception of
\* another class ("failure"), a response without 'items', or n replies
ReplyOutcomes ==
    [kind : {"error", "failure", "noitems"}, n : {0}] \cup
    [kind : {"items"}, n : 0..MaxReplies]

\* no comments().list call is made
NoReplies == [kind |-> "none", n |-> 0]

\* a top-level comment added whatever its text
MainPartKeepingEmpty(cs, th, main) ==
    IF th.top = "broken" THEN [skip |-> TRUE, cs |-> cs]
    ELSE [skip |-> FALSE,
          cs |-> IF main THEN Append(cs, PrincipalComment(th.author)) ELSE cs]

\* lines 186-203: what the thread adds before its replies are looked at;
\* skip: the item is left (continue, or KeyError)
MainPart(cs, th, main) ==
    IF th.top = "broken" THEN [skip |-> TRUE, cs |-> cs]
    ELSE IF main /\ th.top \in {"blank", "notext"}
    THEN [skip |-> TRUE, cs |-> cs]
    ELSE [skip |-> FALSE,
          cs |-> IF main THEN Append(cs, PrincipalComment(th.author)) ELSE cs]

\* the replies asked for without a look at the budget
WantsRepliesIgnoringBudget(cs, th, replies, max) ==
    replies /\ th.replies > 0

\* line 205: the condition under which the replies are asked for
WantsReplies(cs, th, replies, max) ==
    replies /\ th.replies > 0 /\ Len(cs) < max

\* whether comments().list is called for the item: item['id'] raises
\* KeyError where the item has no id
AsksReplies(cs, th, main, replies, max) ==
    LET m == MainPart(cs, th, main)
    IN  ~m.skip /\ WantsReplies(m.cs, th, replies, max) /\ th.has_id

\* lines 187, 202, 210 and 242: the item has no snippet or no topLevelComment
\* or, where its replies are to be asked for, no id: KeyError, caught at the
\* level of the item
ThreadKeyError(cs, th, main, replies, max) ==
    \/ th.top = "broken"
    \/ LET m == MainPart(cs, th, main)
       IN  ~m.skip /\ WantsReplies(m.cs, th, replies, max) /\ ~th.has_id

\* lines 219 and 237: the reply has no snippet: KeyError, caught at the level
\* of the reply
ReplyKeyError(r) == r.form = "broken"

\* a reply without snippet kept as a comment
AfterReplyKeepingBroken(cs, r, parent) ==
    IF r.form \in {"ok", "broken"}
    THEN Append(cs, ReplyComment(r.author, parent))
    ELSE cs

\* a reply put at the head of the list
AfterReplyPrepending(cs, r, parent) ==
    IF r.form = "ok" THEN <<ReplyComment(r.author, parent)>> \o cs ELSE cs

\* lines 218-232: what one reply adds
AfterReply(cs, r, parent) ==
    IF r.form = "ok" THEN Append(cs, ReplyComment(r.author, parent)) ELSE cs

\* lines 235-236: the loop over the replies is left once the budget is met
ReplyBreak(cs, r, max) == r.form = "ok" /\ Len(cs) >= max

\* a request sent upstream
Request(api, maxResults, pageToken, reduced) ==
    [api |-> api, maxResults |-> maxResults, pageToken |-> pageToken,
     reduced |-> reduced]
NoRequest == Request("none", 0, 0, FALSE)

\* what is kept of a thread step: seen: a thread was looked at; empty_text:
\* its top-level comment has no textDisplay or one of white space; listable:
\* it has a totalReplyCount above 0 and an id; outcome: the request for its
\* replies raised an HttpError ("error") or an exception of another class
\* ("failure"), "none" otherwise
NoItem ==
    [seen |-> FALSE, empty_text |-> FALSE, listable |-> FALSE,
     outcome |-> "none"]
ItemOf(th, ro) ==
    [seen |-> TRUE,
     empty_text |-> th.top \in {"blank", "notext"},
     listable |-> th.replies > 0 /\ th.has_id,
     outcome |-> IF ro.kind \in {"error", "failure"} THEN ro.kind
                 ELSE "none"]

\* what videos().list(part='statistics') may give: an HttpError ("error"),
\* an exception of another class ("failure"), no item, an item whose
\* statistics hold no commentCount, or one with a commentCount
VideoInfos ==
    [kind : {"error", "failure", "noitems", "nocount"}, count : {0}] \cup
    [kind : {"count"}, count : 0..MaxAvailable]

\* what commentThreads().list may give: an HttpError that names the
\* moderationStatus parameter ("rejected"), another HttpError ("error"), an
\* exception of another class ("failure"), or a response: with or without
\* 'items', n threads, with or without a nextPageToken
PageOutcomes ==
    [kind : {"error", "rejected", "failure"}, items_key : {TRUE}, n : {0},
     token : {FALSE}] \cup
    [kind : {"page"}, items_key : BOOLEAN, n : 0..MaxThreads,
     token : BOOLEAN]

\* line 334: except HttpError; an exception of another class is not caught
IsHttpError(kind) == kind \in {"error", "rejected"}

\* the class of the exception get_comments raises
Raised(kind) == IF IsHttpError(kind) THEN "HttpError" ELSE "Exception"

\* the exception of a request leaves the try and no reason is added
ReasonsAtRaiseUnchanged(reasons, kind, msg) == reasons

\* lines 335-336: the reasons when the exception of a request leaves the try
ReasonsAtRaise(reasons, kind, msg) ==
    IF IsHttpError(kind) THEN Append(reasons, ApiErrorReason(msg))
    ELSE reasons

\* str(e) of the HttpError of an outcome
HttpMessage(kind) ==
    IF kind = "rejected" THEN "moderationStatus" ELSE "quotaExceeded"

\* what the search step may meet: video_info holds no snippet (KeyError),
\* search().list raises, its response has no 'items', or it has items
SearchItems ==
    {[kind |-> "video", id |-> "v1", text |-> "descricao"],
     [kind |-> "broken", id |-> "", text |-> ""],
     [kind |-> "comment", id |-> "s1", text |-> "descricao"],
     [kind |-> "comment", id |-> "s1", text |-> ""],
     [kind |-> "comment", id |-> "", text |-> "descricao"]}

SearchOutcomes ==
    [kind : {"nosnippet", "error", "noitems"}, items : {<<>>}] \cup
    [kind : {"items"},
     items : UNION {[1..n -> SearchItems] : n \in 0..MaxSearchItems}]

\* the alternative step is not taken
NoSearch == [kind |-> "none", items |-> <<>>]

RECURSIVE AddSearchItems(_, _, _)
\* lines 286-307: the loop over search_response['items']
AddSearchItems(cs, ids, items) ==
    IF items = <<>> THEN cs
    ELSE LET it == Head(items)
         IN  IF it.kind # "comment" \/ it.id \in ids
             THEN AddSearchItems(cs, ids, Tail(items))
             ELSE AddSearchItems(Append(cs, AlternativeComment(it.text)),
                                 ids \cup {it.id}, Tail(items))

\* line 273: set([c.get('id', '') for c in comments]); no comment has an id
CommentIds(cs) == IF cs = <<>> THEN {} ELSE {""}

\* line 265: the condition of the alternative step
TriesAlternative(cs, max, total) ==
    Len(cs) < Smaller(max, total) /\ Len(cs) < total

\* an alternative step that adds a comment whatever it met
AfterAlternativeAnyOutcome(cs, so, max, total) ==
    IF TriesAlternative(cs, max, total)
    THEN Append(cs, AlternativeComment("descricao"))
    ELSE cs

\* lines 264-310: the comments after the alternative step
AfterAlternative(cs, so, max, total) ==
    IF TriesAlternative(cs, max, total) /\ so.kind = "items"
    THEN AddSearchItems(cs, CommentIds(cs), so.items)
    ELSE cs

\* the shortfall reasons without the reason of line 310
ShortfallReasonsSilent(cs, so, max, total, empty) ==
    (IF Len(cs) < max /\ ~empty /\ total > Len(cs)
     THEN <<FilteredReason>> ELSE <<>>)
    \o (IF TriesAlternative(cs, max, total)
        THEN <<TryingAlternativeReason>> ELSE <<>>)

\* lines 259-310: the reasons the shortfall and the alternative step add
ShortfallReasons(cs, so, max, total, empty) ==
    (IF Len(cs) < max /\ ~empty /\ total > Len(cs)
     THEN <<FilteredReason>> ELSE <<>>)
    \o (IF TriesAlternative(cs, max, total)
        THEN <<TryingAlternativeReason>>
             \o (IF so.kind = "nosnippet"
                 THEN <<AlternativeFailedReason("'snippet'")>>
                 ELSE IF so.kind = "error"
                 THEN <<AlternativeFailedReason("quotaExceeded")>>
                 ELSE <<>>)
        ELSE <<>>)

\* lines 316-324: the reasons added when comments are still missing
MissingReasons(cs, max, total) ==
    IF Len(cs) < Smaller(max, total)
    THEN <<NotAllReason, LimitationsReason>>
    ELSE <<>>

\* the extracted count of line 257, not set again after the alternative step
ExtractedAfterPaging(cs, found) == Len(cs)

\* lines 257 and 313: extraction_info["extracted"] = len(comments), set for
\* the last time after the alternative step; cs: the comments of the paging
\* loop, found: the comments after the alternative step
Extracted(cs, found) == Len(found)

\* lines 98-106: the locals of get_comments before the first request
NoInfo == [requested |-> 0, extracted |-> 0, available |-> 0, reasons |-> <<>>]

InitExtract ==
    /\ video_url \in {WatchUrl, OtherUrl}
    /\ video_id = "unset"
    /\ max_comments \in 1..MaxRequested
    /\ extract_main \in BOOLEAN
    /\ extract_replies \in BOOLEAN
    /\ comments = <<>>
    /\ next_page_token = 0
    /\ total_available = 0
    /\ extraction_info = NoInfo
    /\ page_count = 0
    /\ empty_response = FALSE
    /\ items_left = 0
    /\ response_token = FALSE
    /\ replies_left = 0
    /\ parent_author = "none"
    /\ page_attempts = <<>>
    /\ key_error = "none"
    /\ item = NoItem
    /\ search_outcome = "none"
    /\ apis_called = {}
    /\ last_request = NoRequest
    /\ error = "none"
    /\ epc = "called"

\* no get_comments call is running
NoExtract ==
    /\ video_url = <<>>
    /\ video_id = "unset"
    /\ max_comments = 0
    /\ extract_main = TRUE
    /\ extract_replies = TRUE
    /\ comments = <<>>
    /\ next_page_token = 0
    /\ total_available = 0
    /\ extraction_info = NoInfo
    /\ page_count = 0
    /\ empty_response = FALSE
    /\ items_left = 0
    /\ response_token = FALSE
    /\ replies_left = 0
    /\ parent_author = "none"
    /\ page_attempts = <<>>
    /\ key_error = "none"
    /\ item = NoItem
    /\ search_outcome = "none"
    /\ apis_called = {}
    /\ last_request = NoRequest
    /\ error = "none"
    /\ epc = "none"

(***************************************************************************)
(* The rate limiter: GeminiSentimentAnalyzer._apply_rate_limiting          *)
(***************************************************************************)
RECURSIVE Evict(_, _)
\* while request_timestamps and request_timestamps[0] < now - 1 min: popleft()
Evict(ts, t) ==
    IF ts # <<>> /\ Head(ts) < t - Window
    THEN Evict(Tail(ts), t)
    ELSE ts

\* the wait counted from the newest timestamp of the window
WaitTimeFromNewest(ts, t) ==
    IF Len(ts) >= rate_limit THEN ts[Len(ts)] + Window - t ELSE 0

\* wait_time = (oldest_timestamp + 1 min - now), computed only at the limit
WaitTime(ts, t) ==
    IF Len(ts) >= rate_limit THEN Head(ts) + Window - t ELSE 0

\* the time.sleep(wait_time) of the limiter: only a positive wait sleeps
SleepNoWait(ts, t) == 0

SleepTime(ts, t) ==
    IF WaitTime(ts, t) > 0 THEN WaitTime(ts, t) ELSE 0

\* the append of a deque without maxlen
DequeAppendUnbounded(ts, x) == Append(ts, x)

\* deque(maxlen = rate_limit).append(x): a full deque drops its oldest entry
DequeAppend(ts, x) ==
    IF Len(ts) >= rate_limit THEN Append(Tail(ts), x) ELSE Append(ts, x)

InitAnalyzer ==
    /\ now = 0
    /\ request_timestamps = <<>>
    /\ dispatched = <<>>
    /\ apc = "idle"
    /\ calls = 0
    /\ waited = 0
    /\ response = NoResponse
    /\ result = NoResult

\* batch_analyze is not running
NoBatch ==
    /\ comments_df = <<>>
    /\ batch_size = 1
    /\ bi = 0
    /\ bj = 0
    /\ batch_results = <<>>
    /\ results = <<>>
    /\ classified = <<>>
    /\ columns = <<>>
    /\ bpc = "none"

\* analyze_sentiment, line 41: self._apply_rate_limiting()
ApplyRateLimiting ==
    /\ apc = "idle"
    /\ calls < MaxCalls
    /\ LET ts == IF request_timestamps = <<>>
                 THEN request_timestamps
                 ELSE Evict(request_timestamps, now)
           w  == IF request_timestamps = <<>> THEN 0 ELSE SleepTime(ts, now)
       IN  /\ now + w <= MaxTime
           /\ request_timestamps' = ts
           /\ waited' = w
           /\ now' = now + w
    /\ calls' = calls + 1
    /\ apc' = "limited"
    /\ UNCHANGED <<dispatched, response, result>>
    /\ UNCHANGED <<batchVars, extractVars>>

\* analyze_sentiment, line 85: self.request_timestamps.append(datetime.now())
RecordTimestamp ==
    /\ apc = "limited"
    /\ request_timestamps' = DequeAppend(request_timestamps, now)
    /\ dispatched' = Append(dispatched, now)
    /\ apc' = "recorded"
    /\ UNCHANGED <<now, calls, waited, response, result>>
    /\ UNCHANGED <<batchVars, extractVars>>

\* analyze_sentiment, line 87: response = self.model.generate_content(prompt)
GenerateContent ==
    /\ apc = "recorded"
    /\ \E r \in RateResponses : response' = r
    /\ apc' = "answered"
    /\ UNCHANGED <<now, request_timestamps, dispatched, calls, waited, result>>
    /\ UNCHANGED <<batchVars, extractVars>>

\* analyze_sentiment, lines 88-176: the response is parsed, or the failure
\* is handled, and the record is returned
ReturnResult ==
    /\ apc = "answered"
    /\ result' = AnalyzeResult(response)
    /\ apc' = "idle"
    /\ UNCHANGED <<now, request_timestamps, dispatched, calls, waited,
                   response>>
    /\ UNCHANGED <<batchVars, extractVars>>

\* time passes: between two calls, while the prompt is built, while the
\* model answers, or when a sleep lasts longer than asked
Elapse ==
    /\ \E d \in Delays :
          /\ now + d <= MaxTime
          /\ now' = now + d
    /\ UNCHANGED <<request_timestamps, dispatched, apc, calls, waited,
                   response, result>>
    /\ UNCHANGED <<batchVars, extractVars>>

NextRate ==
    \/ ApplyRateLimiting
    \/ RecordTimestamp
    \/ GenerateContent
    \/ ReturnResult
    \/ Elapse

InitRate == InitAnalyzer /\ NoBatch /\ NoExtract

SpecRate == InitRate /\ [][NextRate]_vars

(***************************************************************************)
(* The runs of the dashboard: extract_and_analyze builds its analyzer,     *)
(* with the key of the sidebar, each time it runs.                         *)
(***************************************************************************)
\* app.py, line 251: analyzer = GeminiSentimentAnalyzer(gemini_api_key);
\* __init__, line 27: the analyzer starts with an empty deque
NewAnalyzer ==
    /\ apc = "idle"
    /\ request_timestamps' = <<>>
    /\ UNCHANGED <<now, dispatched, apc, calls, waited, response, result>>
    /\ UNCHANGED <<batchVars, extractVars>>

NextRuns ==
    \/ NewAnalyzer
    \/ ApplyRateLimiting
    \/ RecordTimestamp
    \/ GenerateContent
    \/ ReturnResult
    \/ Elapse

SpecRuns == InitRate /\ [][NextRuns]_vars

(***************************************************************************)
(* The parsing of one response: the model call of an invocation has given  *)
(* any of ModelResponses, and the invocation returns its record.           *)
(***************************************************************************)
InitParse ==
    /\ now = 0
    /\ request_timestamps = <<0>>
    /\ dispatched = <<0>>
    /\ apc = "answered"
    /\ calls = 1
    /\ waited = 0
    /\ response \in ModelResponses
    /\ result = NoResult
    /\ NoBatch
    /\ NoExtract

NextParse == ReturnResult

SpecParse == InitParse /\ [][NextParse]_vars

(***************************************************************************)
(* batch_analyze                                                           *)
(***************************************************************************)
\* the texts of the comments
CommentTexts == {"c1", "c2"}

\* what the model may answer to the prompt that holds a comment: an object
\* whose explanation quotes the comment, JSON that is no object, a failure
BatchResponses(text) ==
    {Answer(<<LBrace>> \o Join(Members(<<StrTok("positivo")>>,
                                        <<NumTok(8, "dec")>>,
                                        <<StrTok(text)>>)) \o <<RBrace>>),
     Answer(<<LBracket, RBracket>>),
     Failure("quota exceeded")}

\* one whole analyze_sentiment call (lines 40-176) whose model call gives r
AnalyzeSentiment(r) ==
    LET ts == IF request_timestamps = <<>>
              THEN request_timestamps
              ELSE Evict(request_timestamps, now)
        w  == IF request_timestamps = <<>> THEN 0 ELSE SleepTime(ts, now)
    IN  /\ now' = now + w
        /\ waited' = w
        /\ request_timestamps' = DequeAppend(ts, now + w)
        /\ dispatched' = Append(dispatched, now + w)
        /\ calls' = calls + 1
        /\ response' = r
        /\ result' = AnalyzeResult(r)
        /\ UNCHANGED apc

\* the rows of comments_df.iloc[i:min(i+batch_size, total)], counted from 1
BatchRowsShort(i, size, total) ==
    [k \in 1..((IF i + size < total THEN i + size ELSE total) - i - 1) |->
        i + k]

BatchRows(i, size, total) ==
    [k \in 1..((IF i + size < total THEN i + size ELSE total) - i) |-> i + k]

\* results.extend(batch_results), without the erro records
ExtendDroppingErrors(rs, batch) ==
    rs \o SelectSeq(batch, LAMBDA r : r.sentiment # "erro")

\* line 252: results.extend(batch_results)
Extend(rs, batch) == rs \o batch

\* lines 256-258: r.get('sentiment', 'erro'), r.get('score', 0),
\* r.get('explanation', ''); the records of analyze_sentiment hold the three
RowOf(r) == Record(r.sentiment, r.score, r.explanation)

\* lines 223-231: the state at the head of the loop over the batches
InitBatch ==
    /\ InitAnalyzer
    /\ comments_df \in UNION {[1..n -> CommentTexts] : n \in 0..MaxRows}
    /\ batch_size \in 1..MaxBatchSize
    /\ bi = 0
    /\ bj = 0
    /\ batch_results = <<>>
    /\ results = <<>>
    /\ classified = <<>>
    /\ columns = <<>>
    /\ bpc = "batches"
    /\ NoExtract

\* a loop over the batches that also runs at i = total
MoreBatchesAtEnd(i, total) == i <= total

\* line 233: for i in range(0, total, batch_size)
MoreBatches(i, total) == i < total

\* lines 233-235: the next batch is cut
BeginBatch ==
    /\ bpc = "batches"
    /\ MoreBatches(bi, Len(comments_df))
    /\ batch_results' = <<>>
    /\ bj' = 0
    /\ bpc' = "rows"
    /\ UNCHANGED <<comments_df, batch_size, bi, results, classified, columns>>
    /\ UNCHANGED <<analyzerVars, extractVars>>

\* lines 237-250: the next row of the batch is classified
ClassifyRow ==
    /\ bpc = "rows"
    /\ bj < Len(BatchRows(bi, batch_size, Len(comments_df)))
    /\ LET row  == BatchRows(bi, batch_size, Len(comments_df))[bj + 1]
           text == comments_df[row]
       IN  \E r \in BatchResponses(text) :
              /\ AnalyzeSentiment(r)
              /\ batch_results' = Append(batch_results, AnalyzeResult(r))
              /\ classified' = Append(classified,
                                      [row |-> row, text |-> text,
                                       response |-> r,
                                       result |-> AnalyzeResult(r)])
    /\ bj' = bj + 1
    /\ UNCHANGED <<comments_df, batch_size, bi, results, columns, bpc>>
    /\ UNCHANGED extractVars

\* lines 252-253: the batch is over
EndBatch ==
    /\ bpc = "rows"
    /\ bj = Len(BatchRows(bi, batch_size, Len(comments_df)))
    /\ results' = Extend(results, batch_results)
    /\ bi' = bi + batch_size
    /\ bpc' = "batches"
    /\ UNCHANGED <<comments_df, batch_size, bj, batch_results, classified,
                   columns>>
    /\ UNCHANGED <<analyzerVars, extractVars>>

\* lines 256-263: the columns are assigned and the DataFrame is returned;
\* pandas raises ValueError when a column is not as long as the DataFrame
AssignColumns ==
    /\ bpc = "batches"
    /\ ~MoreBatches(bi, Len(comments_df))
    /\ IF Len(results) = Len(comments_df)
       THEN /\ columns' = [i \in DOMAIN results |-> RowOf(results[i])]
            /\ bpc' = "done"
       ELSE /\ columns' = columns
            /\ bpc' = "raised"
    /\ UNCHANGED <<comments_df, batch_size, bi, bj, batch_results, results,
                   classified>>
    /\ UNCHANGED <<analyzerVars, extractVars>>

NextBatch ==
    \/ BeginBatch
    \/ ClassifyRow
    \/ EndBatch
    \/ AssignColumns

SpecBatch == InitBatch /\ [][NextBatch]_vars

(***************************************************************************)
(* get_comments, step by step                                              *)
(***************************************************************************)
\* the count reasons without the reason of a count below max_comments
CountReasonsZeroOnly(v, max) ==
    IF v.kind = "count" /\ v.count = 0 THEN <<NoCommentsReason>> ELSE <<>>

\* the count reasons where the low count is reported without its number
CountReasonsUnnamed(v, max) ==
    IF v.kind = "count" /\ v.count = 0 THEN <<NoCommentsReason>>
    ELSE IF v.kind = "count" /\ v.count < max
    THEN <<OnlyAvailableReason(0)>>
    ELSE <<>>

\* the type reasons without the reason of no type chosen
TypeReasonsChosenOnly(main, replies) ==
    IF ~main /\ replies THEN <<OnlyRepliesReason>>
    ELSE IF main /\ ~replies THEN <<OnlyMainReason>>
    ELSE <<>>

\* lines 117-128: the reasons the reported count adds
CountReasons(v, max) ==
    IF v.kind = "count" /\ v.count = 0 THEN <<NoCommentsReason>>
    ELSE IF v.kind = "count" /\ v.count < max
    THEN <<OnlyAvailableReason(v.count)>>
    ELSE <<>>


\* lines 135-142: the reasons the choice of comment types adds
TypeReasons(main, replies) ==
    IF ~main /\ replies THEN <<OnlyRepliesReason>>
    ELSE IF main /\ ~replies THEN <<OnlyMainReason>>
    ELSE IF ~main /\ ~replies THEN <<NoTypeReason>>
    ELSE <<>>

\* lines 94-143: the video id, the comment count, the early returns
StartExtraction ==
    /\ epc = "called"
    /\ video_id' = extract_video_id(video_url)
    /\ IF extract_video_id(video_url) = NoVideoId
       THEN /\ epc' = "raised"
            /\ error' = "ValueError"
            /\ UNCHANGED <<extraction_info, total_available, apis_called,
                           last_request>>
       ELSE \E v \in VideoInfos :
              LET total == IF v.kind = "count" THEN v.count ELSE 0
                  info  == [requested |-> max_comments, extracted |-> 0,
                            available |-> total, reasons |-> <<>>]
              IN  /\ apis_called' = {"videos"}
                  /\ last_request' = Request("videos", 0, 0, FALSE)
                  /\ total_available' = total
                  /\ IF v.kind \in {"error", "failure"}
                     THEN /\ extraction_info' =
                                [info EXCEPT !.reasons =
                                    ReasonsAtRaise(<<>>, v.kind,
                                                   HttpMessage(v.kind))]
                          /\ error' = Raised(v.kind)
                          /\ epc' = "raised"
                     ELSE IF v.kind = "count" /\ v.count = 0
                     THEN /\ extraction_info' =
                                [info EXCEPT !.reasons =
                                    CountReasons(v, max_comments)]
                          /\ error' = error
                          /\ epc' = "done"
                     ELSE /\ extraction_info' =
                                [info EXCEPT !.reasons =
                                    CountReasons(v, max_comments)
                                    \o TypeReasons(extract_main,
                                                   extract_replies)]
                          /\ error' = error
                          /\ epc' = IF ~extract_main /\ ~extract_replies
                                    THEN "done"
                                    ELSE IF Len(comments) < max_comments
                                    THEN "paging"
                                    ELSE "finalize"
    /\ UNCHANGED <<video_url, max_comments, extract_main,
                   extract_replies,
                   page_attempts, item, key_error, search_outcome,
                   comments, next_page_token, page_count, empty_response,
                   items_left, response_token, replies_left, parent_author>>
    /\ UNCHANGED <<analyzerVars, batchVars>>

\* a retry after every HttpError
RetriedAlways(o) == o.kind # "page"

\* line 164: if 'moderationStatus' in str(e)
Retried(o) == IsHttpError(o.kind) /\ HttpMessage(o.kind) = "moderationStatus"

\* a commentThreads().list call and what it gave
Attempt(request, o) == [request |-> request, outcome |-> o.kind]

\* lines 146-180: one page of comment threads is asked for
FetchPage ==
    /\ epc = "paging"
    /\ page_count' = page_count + 1
    /\ \E first \in PageOutcomes, retry \in PageOutcomes :
          LET retried == Retried(first)
              o       == IF retried THEN retry ELSE first
              full    == Request("commentThreads",
                                 Smaller(PageSize,
                                         max_comments - Len(comments)),
                                 next_page_token, FALSE)
              basic   == Request("commentThreads",
                                 Smaller(PageSize,
                                         max_comments - Len(comments)),
                                 next_page_token, TRUE)
          IN  /\ ~retried => retry = first
              /\ last_request' = IF retried THEN basic ELSE full
              /\ page_attempts' =
                    IF retried
                    THEN <<Attempt(full, first), Attempt(basic, retry)>>
                    ELSE <<Attempt(full, first)>>
              /\ IF o.kind # "page"
                 THEN /\ extraction_info' =
                            [extraction_info EXCEPT !.reasons =
                                ReasonsAtRaise(@, o.kind, HttpMessage(o.kind))]
                      /\ error' = Raised(o.kind)
                      /\ epc' = "raised"
                      /\ UNCHANGED <<empty_response, items_left,
                                     response_token>>
                 ELSE IF ~o.items_key \/ o.n = 0
                 THEN /\ empty_response' = TRUE
                      /\ extraction_info' =
                            [extraction_info EXCEPT !.reasons =
                                Append(@, EmptyPageReason)]
                      /\ epc' = "finalize"
                      /\ UNCHANGED <<error, items_left, response_token>>
                 ELSE /\ items_left' = o.n
                      /\ response_token' = o.token
                      /\ epc' = "items"
                      /\ UNCHANGED <<error, empty_response, extraction_info>>
    /\ apis_called' = apis_called \cup {"commentThreads"}
    /\ key_error' = "none"
    /\ item' = NoItem
    /\ UNCHANGED <<video_url, video_id, max_comments, extract_main,
                   extract_replies,
                   comments, next_page_token, total_available, replies_left,
                   parent_author, search_outcome>>
    /\ UNCHANGED <<analyzerVars, batchVars>>

\* the handler of line 240 taking no exception of the request
ReplyRequestLeavesOnError(kind) == kind \in {"error", "failure"}

\* line 240: except HttpError: the outcomes of the request for the replies
\* that leave get_comments as an exception
ReplyRequestLeaves(kind) == kind = "failure"

\* lines 183-216: the next item of the page: its top-level comment, and the
\* request for its replies; the handler of line 240 takes an HttpError of
\* the request, an exception of another class leaves get_comments
ThreadStep(th, ro) ==
    /\ epc = "items"
    /\ items_left > 0
    /\ comments' = MainPart(comments, th, extract_main).cs
    /\ replies_left' = ro.n
    /\ parent_author' = IF ro.n > 0 THEN th.author ELSE "none"
    /\ epc' = IF ReplyRequestLeaves(ro.kind) THEN "raised"
              ELSE IF ro.n > 0 THEN "replies" ELSE "items"
    /\ error' = IF ReplyRequestLeaves(ro.kind) THEN Raised(ro.kind)
                ELSE error
    /\ apis_called' = IF ro.kind # "none"
                      THEN apis_called \cup {"comments"}
                      ELSE apis_called
    /\ items_left' = items_left - 1
    /\ page_attempts' = <<>>
    /\ UNCHANGED <<video_url, video_id, max_comments, extract_main,
                   extract_replies,
                   search_outcome,
                   next_page_token, total_available, extraction_info,
                   page_count, empty_response, response_token>>
    /\ UNCHANGED <<analyzerVars, batchVars>>

\* the outcomes of the request for the replies of a thread, where one is sent
ReplyOutcomesFor(th) ==
    IF AsksReplies(comments, th, extract_main, extract_replies, max_comments)
    THEN ReplyOutcomes ELSE {NoReplies}

\* lines 208-213: the request for the replies of the thread, where one is
\* sent
RepliesRequest(th, ro) ==
    IF ro.kind # "none"
    THEN Request("comments",
                 Smaller(PageSize,
                         max_comments
                         - Len(MainPart(comments, th, extract_main).cs)),
                 0, FALSE)
    ELSE NoRequest

\* lines 183-216, for any thread upstream may return and any outcome of the
\* request for its replies
ProcessThread ==
    \E th \in Threads :
       \E ro \in ReplyOutcomesFor(th) :
          /\ ThreadStep(th, ro)
          /\ item' = NoItem
          /\ key_error' = "none"
          /\ last_request' = NoRequest

\* the same step, kept on record: the thread it looked at, the request for
\* its replies and what the request gave, the KeyError it caught
ProcessThreadObserved ==
    \E th \in Threads :
       \E ro \in ReplyOutcomesFor(th) :
          /\ ThreadStep(th, ro)
          /\ item' = ItemOf(th, ro)
          /\ key_error' = IF ThreadKeyError(comments, th, extract_main,
                                            extract_replies, max_comments)
                          THEN "thread" ELSE "none"
          /\ last_request' = RepliesRequest(th, ro)

\* lines 217-239: the next reply of the thread, r
ReplyStep(r) ==
    /\ epc = "replies"
    /\ LET cs   == AfterReply(comments, r, parent_author)
           left == IF ReplyBreak(cs, r, max_comments) THEN 0
                   ELSE replies_left - 1
       IN  /\ comments' = cs
           /\ replies_left' = left
           /\ parent_author' = IF left = 0 THEN "none" ELSE parent_author
           /\ epc' = IF left = 0 THEN "items" ELSE "replies"
    /\ last_request' = NoRequest
    /\ item' = NoItem
    /\ UNCHANGED <<video_url, video_id, max_comments, extract_main,
                   extract_replies,
                   page_attempts, search_outcome,
                   next_page_token, total_available, extraction_info,
                   page_count, empty_response, items_left, response_token,
                   apis_called, error>>
    /\ UNCHANGED <<analyzerVars, batchVars>>

\* lines 217-239, for any reply upstream may return
ProcessReply ==
    \E r \in Replies :
       /\ ReplyStep(r)
       /\ key_error' = "none"

\* the same step, with the KeyError it caught kept on record
ProcessReplyObserved ==
    \E r \in Replies :
       /\ ReplyStep(r)
       /\ key_error' = IF ReplyKeyError(r) THEN "reply" ELSE "none"

\* the page limit taken one page later
PageCapLate(pc) == pc >= MaxPages + 1

\* line 252: if page_count >= 10
PageCapReached(pc) == pc >= MaxPages

\* lines 246-254: the page is over: the cursor, the budget, the page limit
EndPage ==
    /\ epc = "items"
    /\ items_left = 0
    /\ next_page_token' = IF response_token THEN page_count ELSE 0
    /\ last_request' = NoRequest
    /\ IF ~response_token \/ Len(comments) >= max_comments
       THEN /\ epc' = "finalize"
            /\ UNCHANGED extraction_info
       ELSE IF PageCapReached(page_count)
       THEN /\ epc' = "finalize"
            /\ extraction_info' =
                  [extraction_info EXCEPT !.reasons =
                      Append(@, PageLimitReason)]
       ELSE /\ epc' = "paging"
            /\ UNCHANGED extraction_info
    /\ page_attempts' = <<>>
    /\ key_error' = "none"
    /\ item' = NoItem
    /\ UNCHANGED <<video_url, video_id, max_comments, extract_main,
                   extract_replies,
                   search_outcome,
                   comments, total_available, page_count, empty_response,
                   items_left, response_token, replies_left, parent_author,
                   apis_called, error>>
    /\ UNCHANGED <<analyzerVars, batchVars>>

\* lines 256-333: the shortfall reasons, the alternative step, the return
Finalize ==
    /\ epc = "finalize"
    /\ \E so \in IF TriesAlternative(comments, max_comments,
                                      total_available)
                  THEN SearchOutcomes ELSE {NoSearch} :
          LET found == AfterAlternative(comments, so, max_comments,
                                        total_available)
              asked == /\ TriesAlternative(comments, max_comments,
                                           total_available)
                       /\ so.kind # "nosnippet"
          IN  /\ comments' = found
              /\ search_outcome' = so.kind
              /\ extraction_info' =
                    [extraction_info EXCEPT
                        !.extracted = Extracted(comments, found),
                        !.reasons = @ \o ShortfallReasons(comments, so,
                                            max_comments, total_available,
                                            empty_response)
                                      \o MissingReasons(found, max_comments,
                                                        total_available)]
              /\ apis_called' = IF asked THEN apis_called \cup {"search"}
                                ELSE apis_called
              /\ last_request' =
                    IF asked
                    THEN Request("search",
                                 Smaller(SearchPageSize,
                                         max_comments - Len(comments)),
                                 0, FALSE)
                    ELSE NoRequest
    /\ epc' = "done"
    /\ page_attempts' = <<>>
    /\ key_error' = "none"
    /\ item' = NoItem
    /\ UNCHANGED <<video_url, video_id, max_comments, extract_main,
                   extract_replies,
                   next_page_token, total_available, page_count,
                   empty_response, items_left, response_token, replies_left,
                   parent_author, error>>
    /\ UNCHANGED <<analyzerVars, batchVars>>

NextExtract ==
    \/ StartExtraction
    \/ FetchPage
    \/ ProcessThread
    \/ ProcessReply
    \/ EndPage
    \/ Finalize

InitExtraction == InitExtract /\ InitAnalyzer /\ NoBatch

SpecExtract == InitExtraction /\ [][NextExtract]_vars

\* get_comments with the steps over the threads and their replies kept on
\* record
NextThreads ==
    \/ StartExtraction
    \/ FetchPage
    \/ ProcessThreadObserved
    \/ ProcessReplyObserved
    \/ EndPage
    \/ Finalize

SpecThreads == InitExtraction /\ [][NextThreads]_vars

\* get_comments runs on: a call that can take a step takes one
SpecExtractLive ==
    InitExtraction /\ [][NextExtract]_vars /\ WF_vars(NextExtract)

(***************************************************************************)
(* extract_video_id, called on its own (app.py, line 199)                  *)
(***************************************************************************)
InitResolve ==
    /\ InitAnalyzer
    /\ NoBatch
    /\ video_url \in Urls
    /\ video_id = "unset"
    /\ max_comments = 0
    /\ extract_main = TRUE
    /\ extract_replies = TRUE
    /\ comments = <<>>
    /\ next_page_token = 0
    /\ total_available = 0
    /\ extraction_info = NoInfo
    /\ page_count = 0
    /\ empty_response = FALSE
    /\ items_left = 0
    /\ response_token = FALSE
    /\ replies_left = 0
    /\ parent_author = "none"
    /\ page_attempts = <<>>
    /\ key_error = "none"
    /\ item = NoItem
    /\ search_outcome = "none"
    /\ apis_called = {}
    /\ last_request = NoRequest
    /\ error = "none"
    /\ epc = "resolving"

\* lines 21-43: the call returns the identifier, or None
ResolveVideoId ==
    /\ epc = "resolving"
    /\ video_id' = extract_video_id(video_url)
    /\ epc' = "resolved"
    /\ UNCHANGED <<video_url, max_comments, extract_main, extract_replies,
                   comments, next_page_token, total_available,
                   extraction_info, page_count, empty_response, items_left,
                   response_token, replies_left, parent_author,
                   page_attempts, item, key_error, search_outcome,
                   apis_called,
                   last_request,
                   error>>
    /\ UNCHANGED <<analyzerVars, batchVars>>

NextResolve == ResolveVideoId

SpecResolve == InitResolve /\ [][NextResolve]_vars

(***************************************************************************)
(* C1: at the moment a dispatch timestamp is recorded, the recorded        *)
(* dispatches strictly newer than (that moment - 60 s), the new one        *)
(* included, number at most rate_limit.                                    *)
(***************************************************************************)
InWindow(i) ==
    {j \in 1..i : dispatched[j] > dispatched[i] - Window}

C1_RollingWindowQuota ==
    \A i \in DOMAIN dispatched : Cardinality(InWindow(i)) <= rate_limit

\* a call that found the window full and slept has recorded its dispatch
C1_Witness ==
    /\ apc = "recorded"
    /\ waited > 0
    /\ Len(dispatched) > rate_limit
    /\ Cardinality(InWindow(Len(dispatched))) = rate_limit

\* an analyze_sentiment call has returned its record
Returned == apc = "idle" /\ calls > 0

Sentiments == {"positivo", "negativo", "neutro", "erro"}

(***************************************************************************)
(* C3: for any text the model returns, the record analyze_sentiment        *)
(* returns has a sentiment among positivo, negativo, neutro, erro and a    *)
(* score that is a number.                                                 *)
(***************************************************************************)
C3_SentimentAndNumericScore ==
    (Returned /\ response.ok) =>
        /\ result.sentiment \in Sentiments
        /\ result.score.t = "num"

(***************************************************************************)
(* C4: a response received as text never gives the erro sentiment: the     *)
(* record is positivo, negativo or neutro.                                 *)
(***************************************************************************)
C4_TextNeverErro ==
    (Returned /\ response.ok) =>
        result.sentiment \in {"positivo", "negativo", "neutro"}

(***************************************************************************)
(* C5: when the model call fails, analyze_sentiment returns a record with  *)
(* sentiment erro, score 0 and an explanation that holds the failure's     *)
(* message.                                                                *)
(***************************************************************************)
C5_CallFailureGivesErro ==
    (Returned /\ ~response.ok) =>
        /\ result.sentiment = "erro"
        /\ result.score = JNum(0)
        /\ \E i \in DOMAIN result.explanation :
              result.explanation[i] = JStr(response.msg)

\* a call whose model request failed on the quota has returned
C5_Witness ==
    /\ Returned
    /\ response = Failure("quota exceeded")
    /\ result.sentiment = "erro"

(***************************************************************************)
(* C6: batch_analyze over N comments returns N rows, each with sentiment,  *)
(* score and explanation set; a comment whose classification failed has an *)
(* erro row, and the batch is not aborted: every comment is classified.    *)
(***************************************************************************)
C6_BatchKeepsEveryRow ==
    /\ bpc # "raised"
    /\ bpc = "done" =>
          /\ Len(columns) = Len(comments_df)
          /\ Len(classified) = Len(comments_df)
          /\ \A i \in DOMAIN columns :
                /\ DOMAIN columns[i] = {"sentiment", "score", "explanation"}
                /\ columns[i].sentiment \in Sentiments
                /\ columns[i].explanation # <<>>
          /\ \A k \in DOMAIN classified :
                ~classified[k].response.ok =>
                    columns[classified[k].row].sentiment = "erro"

\* a batch whose second comment failed has returned, the third classified
C6_Witness ==
    /\ bpc = "done"
    /\ Len(comments_df) >= 3
    /\ ~classified[2].response.ok
    /\ columns[2].sentiment = "erro"
    /\ columns[3].sentiment = "positivo"

(***************************************************************************)
(* C7: batch_analyze classifies each comment once, in input order, and     *)
(* attaches the i-th classification to the i-th comment, for every         *)
(* batch_size >= 1.                                                        *)
(***************************************************************************)
C7_BatchOrder ==
    /\ \A k \in DOMAIN classified :
          /\ classified[k].row = k
          /\ classified[k].text = comments_df[k]
    /\ bpc = "done" =>
          /\ Len(classified) = Len(comments_df)
          /\ Len(columns) = Len(comments_df)
          /\ \A i \in DOMAIN columns :
                columns[i] = RowOf(classified[i].result)

\* a batch of rows with different outcomes, cut inside, has returned
C7_Witness ==
    /\ bpc = "done"
    /\ batch_size = 2
    /\ Len(comments_df) >= 3
    /\ comments_df[1] # comments_df[2]
    /\ columns[1].sentiment # columns[2].sentiment
    /\ columns[3].explanation = <<JStr(comments_df[3])>>

\* get_comments has returned its DataFrame and its report
ExtractReturned == epc = "done"

InReasons(r) ==
    \E i \in DOMAIN extraction_info.reasons : extraction_info.reasons[i] = r

(***************************************************************************)
(* C2: a get_comments call that returns gives at most max_comments         *)
(* comments, whatever upstream delivers.                                   *)
(***************************************************************************)
C2_AtMostMaxComments ==
    ExtractReturned => Len(comments) <= max_comments

(***************************************************************************)
(* C8: with extract_main and extract_replies both false, get_comments      *)
(* returns no comments and a non-empty reasons list, and no request other  *)
(* than the comment-count check is ever issued.                            *)
(***************************************************************************)
C8_NoTypeShortCircuit ==
    (~extract_main /\ ~extract_replies) =>
        /\ apis_called \subseteq {"videos"}
        /\ epc \in {"called", "raised", "done"}
        /\ ExtractReturned =>
              /\ comments = <<>>
              /\ extraction_info.reasons # <<>>

\* a call with both types off, on a video that has comments, has returned
C8_Witness ==
    /\ ExtractReturned
    /\ ~extract_main /\ ~extract_replies
    /\ total_available >= max_comments
    /\ apis_called = {"videos"}
    /\ extraction_info.reasons = <<NoTypeReason>>

(***************************************************************************)
(* C9 as stated: whenever get_comments returns with extracted < requested  *)
(* or extracted < available, the reasons list is non-empty.                *)
(***************************************************************************)
C9_ShortfallAlwaysExplained ==
    (/\ ExtractReturned
     /\ \/ extraction_info.extracted < extraction_info.requested
        \/ extraction_info.extracted < extraction_info.available) =>
        extraction_info.reasons # <<>>

(***************************************************************************)
(* C9, amended: whenever get_comments returns with extracted < requested   *)
(* and upstream reported a positive comment count, the reasons list is     *)
(* non-empty.                                                              *)
(***************************************************************************)
C9_CountedShortfallExplained ==
    (/\ ExtractReturned
     /\ extraction_info.extracted < extraction_info.requested
     /\ extraction_info.available > 0) =>
        extraction_info.reasons # <<>>

\* a call that paged, got fewer comments than requested from a video that
\* reports enough of them, and returned with its reasons
C9_Witness ==
    /\ ExtractReturned
    /\ page_count > 0
    /\ extract_main /\ extract_replies
    /\ extraction_info.available >= extraction_info.requested
    /\ 0 < extraction_info.extracted
    /\ extraction_info.extracted < extraction_info.requested
    /\ InReasons(FilteredReason)

(***************************************************************************)
(* C10 as stated: when the count check reports A with 0 < A <              *)
(* max_comments, get_comments returns at most A comments and its reasons   *)
(* include the low-availability reason naming A.                           *)
(***************************************************************************)
C10_AtMostAvailable ==
    (/\ ExtractReturned
     /\ 0 < extraction_info.available
     /\ extraction_info.available < max_comments) =>
        /\ Len(comments) <= extraction_info.available
        /\ InReasons(OnlyAvailableReason(extraction_info.available))

(***************************************************************************)
(* C10, amended: when the count check reports A with 0 < A < max_comments, *)
(* the reasons of the returned report include the low-availability reason  *)
(* naming A.                                                               *)
(***************************************************************************)
C10_LowAvailabilityReason ==
    (/\ ExtractReturned
     /\ 0 < extraction_info.available
     /\ extraction_info.available < max_comments) =>
        InReasons(OnlyAvailableReason(extraction_info.available))

\* a call on a video that reports one comment, asked for two, has paged and
\* returned that comment
C10_Witness ==
    /\ ExtractReturned
    /\ extraction_info.available = 1
    /\ max_comments = 2
    /\ page_count > 0
    /\ Len(comments) = 1
    /\ extraction_info.reasons[1] = OnlyAvailableReason(1)

\* get_comments has raised or returned
ExtractEnded == epc \in {"done", "raised"}

\* the loop over the pages was left after a page that had a nextPageToken
\* and did not fill the budget
StoppedByPageCap ==
    /\ epc = "finalize"
    /\ ~empty_response
    /\ response_token
    /\ Len(comments) < max_comments

C11_PageCap ==
    /\ page_count <= MaxPages
    /\ StoppedByPageCap =>
          /\ page_count = MaxPages
          /\ InReasons(PageLimitReason)

(***************************************************************************)
(* C11: every get_comments call ends, whatever upstream answers; at most   *)
(* 10 pages of comment threads are fetched, and when the page limit is     *)
(* what ends the loop the page-limit reason is in the report.              *)
(***************************************************************************)
C11_TerminatesWithinPageCap == []C11_PageCap /\ <>ExtractEnded

\* a call whose ten pages all had a nextPageToken and left the budget open
\* has returned
C11_Witness ==
    /\ ExtractReturned
    /\ page_count = MaxPages
    /\ response_token
    /\ ~empty_response
    /\ InReasons(PageLimitReason)

\* the last commentThreads request of the page failed
LastAttemptFailed ==
    /\ page_attempts # <<>>
    /\ page_attempts[Len(page_attempts)].outcome # "page"

(***************************************************************************)
(* C12: a page request rejected with an error that names moderationStatus  *)
(* is sent once more, with the reduced parameters and the same page token  *)
(* and maxResults; the call goes on with the response of the retry, or     *)
(* raises its error without another retry.  Any other error of the page    *)
(* request is raised without a retry.                                      *)
(***************************************************************************)
C12_RetryOnceOnRejectedParameter ==
    /\ Len(page_attempts) <= 2
    /\ page_attempts # <<>> =>
          /\ ~page_attempts[1].request.reduced
          /\ page_attempts[1].outcome = "rejected" <=> Len(page_attempts) = 2
    /\ Len(page_attempts) = 2 =>
          page_attempts[2].request =
             [page_attempts[1].request EXCEPT !.reduced = TRUE]
    /\ LastAttemptFailed =>
          /\ epc = "raised"
          /\ error = Raised(page_attempts[Len(page_attempts)].outcome)
    /\ (page_attempts # <<>> /\ ~LastAttemptFailed) =>
          ~(epc = "raised" /\ error = "HttpError")

\* the first request of the second page was rejected, its retry gave a page,
\* and the call goes on with the items of it
C12_Witness ==
    /\ epc = "items"
    /\ items_left > 0
    /\ page_count = 2
    /\ Len(page_attempts) = 2
    /\ page_attempts[1].request.pageToken # 0
    /\ page_attempts[2].outcome = "page"
    /\ error = "none"

\* get_comments has raised the exception of the comment-count request or of
\* a page request
CheckOrPageFailed ==
    /\ epc = "raised"
    /\ error # "ValueError"
    /\ page_attempts # <<>> => LastAttemptFailed

\* str(e) of that exception
FailureMessage ==
    IF page_attempts = <<>> THEN HttpMessage("error")
    ELSE HttpMessage(page_attempts[Len(page_attempts)].outcome)

LastReason == extraction_info.reasons[Len(extraction_info.reasons)]

C13_HttpErrorReason ==
    (CheckOrPageFailed /\ error = "HttpError") =>
        /\ extraction_info.reasons # <<>>
        /\ LastReason = ApiErrorReason(FailureMessage)

SearchFailed(kind) == kind \in {"nosnippet", "error"}

\* str(e) of that exception
SearchFailureMessage(kind) ==
    IF kind = "nosnippet" THEN "'snippet'" ELSE "quotaExceeded"

(***************************************************************************)
(* C14: a failure inside the alternative step is caught: get_comments      *)
(* returns, with the comments the paging gathered and with the reason of   *)
(* the failure in the report, and raises nothing.                          *)
(***************************************************************************)
C14_FallbackFailureCaught ==
    [][(epc = "finalize" /\ SearchFailed(search_outcome')) =>
          /\ epc' = "done"
          /\ error' = "none"
          /\ Len(comments') >= Len(comments)
          /\ SubSeq(comments', 1, Len(comments)) = comments
          /\ extraction_info'.extracted = Len(comments')
          /\ \E i \in DOMAIN extraction_info'.reasons :
                extraction_info'.reasons[i] =
                   AlternativeFailedReason(
                      SearchFailureMessage(search_outcome'))]_vars

\* a call whose paging gave one comment and whose search request failed has
\* returned that comment
C14_Witness ==
    /\ ExtractReturned
    /\ search_outcome = "error"
    /\ Len(comments) = 1
    /\ comments[1].type = "principal"
    /\ InReasons(AlternativeFailedReason("quotaExceeded"))

(***************************************************************************)
(* C15: over the successive runs of the dashboard with one Gemini key,     *)
(* the dispatches of any trailing 60 s number at most rate_limit.          *)
(***************************************************************************)
C15_QuotaAcrossRuns ==
    \A i \in DOMAIN dispatched :
        Cardinality({j \in 1..i : dispatched[j] > dispatched[i] - Window})
            <= rate_limit

(***************************************************************************)
(* C16: batch_analyze over an empty collection cuts no batch, makes no     *)
(* analyze_sentiment call (no rate-limit check, no dispatch, no model      *)
(* call) and returns an empty result.                                      *)
(***************************************************************************)
C16_EmptyBatchNoCalls ==
    comments_df = <<>> =>
        /\ bpc \in {"batches", "done"}
        /\ bi = 0 /\ bj = 0
        /\ calls = 0
        /\ dispatched = <<>>
        /\ request_timestamps = <<>>
        /\ response = NoResponse
        /\ classified = <<>>
        /\ bpc = "done" => columns = <<>>

\* batch_analyze over no comments has returned
C16_Witness ==
    /\ bpc = "done"
    /\ comments_df = <<>>
    /\ columns = <<>>
    /\ calls = 0

(***************************************************************************)
(* C17: get_comments on a URL that holds no video id raises ValueError at  *)
(* once: no upstream request is issued, before or after, and the           *)
(* resolution is done once.                                                *)
(***************************************************************************)
C17_UnresolvableUrlRaisesFirst ==
    video_url = OtherUrl =>
        /\ epc \in {"called", "raised"}
        /\ apis_called = {}
        /\ last_request = NoRequest
        /\ page_attempts = <<>>
        /\ epc = "raised" =>
              /\ error = "ValueError"
              /\ video_id = NoVideoId
              /\ extraction_info = NoInfo

\* a call on https://example.com/notavideo has raised
C17_Witness ==
    /\ video_url = OtherUrl
    /\ epc = "raised"
    /\ error = "ValueError"
    /\ apis_called = {}

\* the places of a URL where a prefix of pattern p is followed by an
\* identifier
Captures(url, p) ==
    {i \in 1..(Len(url) - 1) : url[i].s \in Patterns[p] /\ url[i + 1].k = "id"}

\* a URL with one of the four forms after its scheme
FormUrl(prefix) ==
    <<UrlPart("text", "https://www."), UrlPart("text", prefix),
      UrlPart("id", "ABC123")>>

C18_FirstPattern ==
    epc = "resolved" =>
        /\ (\A p \in DOMAIN Patterns : Captures(video_url, p) = {}) <=>
              video_id = NoVideoId
        /\ \A p \in DOMAIN Patterns :
              (/\ Captures(video_url, p) # {}
               /\ \A q \in 1..(p - 1) : Captures(video_url, q) = {}) =>
                 \E i \in Captures(video_url, p) :
                    /\ video_id = video_url[i + 1].s
                    /\ \A j \in Captures(video_url, p) : i <= j
        /\ \A f \in {"youtube.com/watch?v=", "youtu.be/",
                     "youtube.com/embed/", "youtube.com/v/"} :
              video_url = FormUrl(f) => video_id = "ABC123"
        /\ video_url = OtherUrl => video_id = NoVideoId

(***************************************************************************)
(* C18: extract_video_id returns the identifier captured by the first      *)
(* pattern, in the order of the list, that matches the URL: URLs of the    *)
(* forms watch?v=ID, youtu.be/ID, embed/ID and /v/ID give ID, a URL that   *)
(* matches no pattern gives None, and the call changes nothing else.       *)
(***************************************************************************)
C18_FirstMatchingPatternWins ==
    /\ []C18_FirstPattern
    /\ [][epc = "resolving" =>
             UNCHANGED <<video_url, analyzerVars, batchVars, comments,
                         extraction_info, apis_called, last_request,
                         error>>]_vars

\* a URL that holds an embed form before a youtu.be form has been resolved
\* to the identifier of the youtu.be form
C18_Witness ==
    /\ epc = "resolved"
    /\ video_url = <<UrlPart("text", "youtube.com/embed/"),
                     UrlPart("id", "notavideo"),
                     UrlPart("sep", "&next="),
                     UrlPart("text", "youtu.be/"),
                     UrlPart("id", "ABC123")>>
    /\ video_id = "ABC123"

\* the valid labels the model may write, each with its canonical form
Labels ==
    {<<"positivo", "positivo">>, <<"Positivo", "positivo">>,
     <<"POSITIVE", "positivo">>, <<"negativo", "negativo">>,
     <<"Negative", "negativo">>, <<"neutro", "neutro">>}

\* the score values that are numbers, the explanation values that are strings
NumberValues == {c \in ScoreValues : c # <<>> /\ c[1].k = "num"}
StringValues == {e \in ExplanationValues : e # <<>> /\ e[1].k = "str"}

\* the well-formed object of a label, a number and a string
WellFormedObject(label, c, e) ==
    <<LBrace>> \o Join(Members(<<StrTok(label)>>, c, e)) \o <<RBrace>>

(***************************************************************************)
(* C19: a response that is one well-formed object with a valid label, a    *)
(* numeric score and an explanation, bare, between code-fence markers, or  *)
(* with brace-free prose before or after it, gives the canonical label,    *)
(* that score and that explanation.                                        *)
(***************************************************************************)
C19_RoundTrip ==
    (Returned /\ response.ok) =>
        \A l \in Labels, c \in NumberValues, e \in StringValues :
            response.text \in Wrappings(WellFormedObject(l[1], c, e)) =>
                result = Record(l[2], JNum(c[1].n), <<JStr(e[1].s)>>)

\* the text left after line 92 is no JSON and holds no "{" with a "}" after
UnstructuredText(t) ==
    /\ ~JsonLoads(StripFences(t)).ok
    /\ ~HasBraceMatch(StripFences(t))

\* the text holds the keyword, in any case
HoldsKeyword(t, keyword) ==
    \E i \in DOMAIN t :
        /\ t[i].k \in {"str", "word"}
        /\ t[i].s \in (IF keyword = "positivo"
                       THEN {"positivo", "Positivo"}
                       ELSE {"negativo", "Negativo"})

(***************************************************************************)
(* C20: a response text that is no JSON and holds no brace-delimited part  *)
(* gives positivo with score 0.7 when it holds the word positivo, else     *)
(* negativo with score -0.7 when it holds the word negativo, else neutro   *)
(* with score 0.0.                                                         *)
(***************************************************************************)
C20_KeywordFallback ==
    (Returned /\ response.ok /\ UnstructuredText(response.text)) =>
        IF HoldsKeyword(response.text, "positivo")
        THEN result.sentiment = "positivo" /\ result.score = JNum(7)
        ELSE IF HoldsKeyword(response.text, "negativo")
        THEN result.sentiment = "negativo" /\ result.score = JNum(-7)
        ELSE result.sentiment = "neutro" /\ result.score = JNum(0)

\* 'Resultado: positivo, sem JSON valido' has been classified
C20_Witness ==
    /\ Returned
    /\ response.text = <<Word("Resultado"), Colon, Word("positivo"), Comma,
                         Word("sem"), Word("JSON"), Word("valido")>>
    /\ result.sentiment = "positivo"
    /\ result.score = JNum(7)

\* neither the text left after line 92 nor its brace-delimited part is JSON
UndecodableText(t) ==
    LET s == StripFences(t)
    IN  /\ ~JsonLoads(s).ok
        /\ HasBraceMatch(s) => ~JsonLoads(BraceMatch(s)).ok

\* label and score the keywords of the text stand for
KeywordGuess(t) ==
    IF HoldsKeyword(t, "positivo") THEN <<"positivo", 7>>
    ELSE IF HoldsKeyword(t, "negativo") THEN <<"negativo", -7>>
    ELSE <<"neutro", 0>>

(***************************************************************************)
(* C21: when neither the text nor its brace-delimited part decodes, the    *)
(* sentiment is the one its pattern finds in the text, and when the        *)
(* pattern finds none it is the one the keywords of the text stand for:    *)
(* positivo for positivo, negativo for negativo, neutro only when the      *)
(* text holds neither; the score is the one its pattern finds, else 0.7,   *)
(* -0.7 or 0.0 with the keyword.                                           *)
(***************************************************************************)
C21_FieldsThenKeywords ==
    (Returned /\ response.ok /\ UndecodableText(response.text)) =>
        LET s  == StripFences(response.text)
            sm == StringFieldAt(s, "sentiment")
            cm == ScoreFieldAt(s)
        IN  IF sm # {}
            THEN result.sentiment = Normalize(s[Min(sm) + 2].s)
            ELSE /\ result.sentiment = KeywordGuess(response.text)[1]
                 /\ result.score = IF cm # {} THEN JNum(s[Min(cm) + 2].n)
                                   ELSE JNum(KeywordGuess(response.text)[2])

\* the three fields of the record
FieldNames == {"sentiment", "score", "explanation"}

\* the response was decoded to a dict that lacks at least one of the fields
DecodedLacking(r) ==
    /\ r.ok
    /\ Decode(StripFences(r.text)).t = "obj"
    /\ \E k \in FieldNames : ~HasKey(Decode(StripFences(r.text)), k)

(***************************************************************************)
(* C22: when the decoded dict lacks some of sentiment, score, explanation, *)
(* the record returned holds the default of each missing field (neutro,    *)
(* 0.0, the placeholder) and the decoded value of each field present, the  *)
(* sentiment brought to its canonical label; the call does not end in the  *)
(* error record.                                                           *)
(***************************************************************************)
C22_MissingFieldsFilled ==
    (Returned /\ DecodedLacking(response)) =>
        LET v == Decode(StripFences(response.text))
        IN  /\ result.sentiment =
                  IF HasKey(v, "sentiment") /\ GetKey(v, "sentiment").t = "str"
                  THEN Normalize(GetKey(v, "sentiment").s)
                  ELSE "neutro"
            /\ result.score =
                  IF HasKey(v, "score") THEN GetKey(v, "score") ELSE JNum(0)
            /\ result.explanation =
                  IF HasKey(v, "explanation")
                  THEN <<GetKey(v, "explanation")>>
                  ELSE <<JStr("Nao foi fornecida explicacao")>>

\* the dict the normalization of lines 160-166 is applied to holds a string
\* as its sentiment
LabelOf(r) == GetKey(FillDefaults(Decode(StripFences(r.text))), "sentiment")

HasLabel(r) ==
    /\ r.ok
    /\ Decode(StripFences(r.text)).t = "obj"
    /\ LabelOf(r).t = "str"

\* the canonical label of each spelling the responses use
CanonicalLabel(l) ==
    CASE l \in {"positivo", "Positivo", "POSITIVO", "positive", "Positive",
                "POSITIVE"} -> "positivo"
      [] l \in {"negativo", "Negativo", "NEGATIVO", "negative", "Negative",
                "NEGATIVE"} -> "negativo"
      [] OTHER              -> "neutro"

(***************************************************************************)
(* C23: whichever tier gave the dict, the sentiment returned is the        *)
(* canonical form of its label, whatever the case of its letters:          *)
(* positivo for positivo and positive, negativo for negativo and negative, *)
(* neutro for every other label; normalizing the label returned gives it   *)
(* back.                                                                   *)
(***************************************************************************)
C23_LabelCanonical ==
    (Returned /\ HasLabel(response)) =>
        /\ result.sentiment = CanonicalLabel(LabelOf(response).s)
        /\ result.sentiment \in {"positivo", "negativo", "neutro"}
        /\ Normalize(result.sentiment) = result.sentiment

\* the label POSITIVE of a well-formed object has been returned as positivo
C23_Witness ==
    /\ Returned
    /\ response.ok
    /\ response.text =
          WellFormedObject("POSITIVE", <<NumTok(8, "dec")>>, <<StrTok("x")>>)
    /\ result.sentiment = "positivo"

(***************************************************************************)
(* C24: a score that analyze_sentiment returns as a number lies between    *)
(* -1.0 and 1.0, whatever number the response holds.                       *)
(***************************************************************************)
C24_ScoreInDomain ==
    (Returned /\ result.score.t = "num") =>
        /\ -10 <= result.score.n
        /\ result.score.n <= 10

\* the timestamps of ts that are not older than 60 s at time t
NotOlder(ts, t) == SelectSeq(ts, LAMBDA x : x >= t - Window)

\* the step of the call that is its rate-limit check
RateLimitCheck == apc = "idle" /\ apc' = "limited"

(***************************************************************************)
(* C25: the rate-limit check leaves in the window the timestamps not older *)
(* than 60 s; it sleeps exactly when these are rate_limit many and the     *)
(* oldest of them plus 60 s is later than now, and then for the oldest     *)
(* plus 60 s minus now, which is more than 0 and at most 60 s; in every    *)
(* other case it does not wait.  It never waits a negative time.           *)
(***************************************************************************)
C25_WaitOnlyWhenFull ==
    [][RateLimitCheck =>
         LET kept == NotOlder(request_timestamps, now)
             full == /\ Len(kept) >= rate_limit
                     /\ kept[1] + Window > now
         IN  /\ request_timestamps' = kept
             /\ waited' >= 0
             /\ waited' <= Window
             /\ now' = now + waited'
             /\ IF full THEN /\ waited' = kept[1] + Window - now
                             /\ waited' > 0
                ELSE waited' = 0]_vars

\* a check that found fifteen timestamps, the oldest of them 30 s old, has
\* slept 30 s
C25_Witness ==
    /\ apc = "limited"
    /\ waited = 30
    /\ Len(request_timestamps) = rate_limit
    /\ request_timestamps[1] + Window = now
    /\ request_timestamps[rate_limit] > request_timestamps[1]

\* the steps of one analyze_sentiment call, in the order they are taken
CallSteps ==
    {<<"idle", "limited">>, <<"limited", "recorded">>,
     <<"recorded", "answered">>, <<"answered", "idle">>}

\* the window and the calls: at most rate_limit timestamps; every call that
\* is past its append has one dispatch, a call that is not has none yet
C26_WindowAndDispatches ==
    /\ Len(request_timestamps) <= rate_limit
    /\ Len(dispatched) = IF apc = "limited" THEN calls - 1 ELSE calls
    /\ apc \in {"recorded", "answered"} =>
          /\ request_timestamps # <<>>
          /\ request_timestamps[Len(request_timestamps)] =
                dispatched[Len(dispatched)]

(***************************************************************************)
(* C26: a call of analyze_sentiment takes, in this order, one rate-limit   *)
(* check, one append of the time of dispatch to the window and one model   *)
(* call; the model call and the return leave the window as it is, also     *)
(* when the model call fails, so the timestamp of a failed call stays and  *)
(* counts; the window never holds more than rate_limit timestamps.         *)
(***************************************************************************)
C26_CheckAppendCall ==
    /\ []C26_WindowAndDispatches
    /\ [][/\ apc' # apc => <<apc, apc'>> \in CallSteps
          /\ (apc = "limited" /\ apc' = "recorded") =>
                /\ dispatched' = Append(dispatched, now)
                /\ request_timestamps'[Len(request_timestamps')] = now
                /\ Len(request_timestamps') =
                      IF Len(request_timestamps) < rate_limit
                      THEN Len(request_timestamps) + 1 ELSE rate_limit
                /\ response' = response
          /\ (apc = "recorded" /\ apc' = "answered") =>
                UNCHANGED <<request_timestamps, dispatched, calls>>
          /\ (apc = "answered" /\ apc' = "idle") =>
                /\ UNCHANGED <<request_timestamps, dispatched, calls>>
                /\ ~response.ok => result'.sentiment = "erro"]_vars

\* a call whose model call failed has returned the error record, and its
\* timestamp is the newest of the window
C26_Witness ==
    /\ Returned
    /\ ~response.ok
    /\ result.sentiment = "erro"
    /\ Len(dispatched) = calls
    /\ request_timestamps[Len(request_timestamps)] = dispatched[calls]
    /\ Len(request_timestamps) = rate_limit
    /\ calls > rate_limit

\* the alternative step was entered: line 266 has added its reason
Attempted == InReasons(TryingAlternativeReason)

\* the alternative step is entered in the last step of the call only, and
\* its reason is in the report once
C27_AttemptedAtEndOnce ==
    /\ epc # "done" => (~Attempted /\ search_outcome = "none")
    /\ Cardinality({i \in DOMAIN extraction_info.reasons :
                       extraction_info.reasons[i] = TryingAlternativeReason})
          <= 1

\* the step after the paging loop enters the alternative step exactly when
\* the comments are fewer than max_comments and than the count reported
C27_AttemptedWhenShort ==
    epc = "finalize" =>
        /\ Attempted' <=> /\ Len(comments) < max_comments
                          /\ Len(comments) < total_available
        /\ Attempted' <=> search_outcome' # "none"
        /\ ~Attempted' => comments' = comments

C28_ReportCounts ==
    ExtractReturned =>
        /\ extraction_info.requested = max_comments
        /\ extraction_info.extracted = Len(comments)
        /\ extraction_info.available = total_available
        /\ \A a \in 0..(MaxAvailable + 1) :
              InReasons(OnlyAvailableReason(a)) =>
                 extraction_info.available = a
        /\ InReasons(NoCommentsReason) <=>
              (extraction_info.available = 0 /\ "commentThreads" \notin apis_called
                 /\ ~InReasons(NoTypeReason))

\* a call has returned two comments, the second one added by the
\* alternative step, and reports two extracted
C28_Witness ==
    /\ ExtractReturned
    /\ extraction_info.requested = 2
    /\ extraction_info.extracted = 2
    /\ extraction_info.available = 2
    /\ Len(comments) = 2
    /\ comments[2].type = "alternativo"

\* a KeyError is caught only while the items of a page or the replies of a
\* thread are looked at, and the call goes on
C29_KeyErrorCaught ==
    key_error # "none" =>
        /\ epc \in {"items", "replies"}
        /\ error = "none"

\* the step that met a thread without a field it reads: the thread is left,
\* with at most its own top-level comment added and no request sent for
\* it, and the other items of the page stay to be looked at
C29_ThreadLeft ==
    key_error' = "thread" =>
        /\ epc = "items" /\ epc' = "items"
        /\ items_left' = items_left - 1
        /\ \/ comments' = comments
           \/ \E a \in {"ana", "missing"} :
                 comments' = Append(comments, PrincipalComment(a))
        /\ last_request' = NoRequest
        /\ UNCHANGED <<apis_called, extraction_info, page_count,
                       response_token, error>>

\* the step that met a reply without snippet: the reply adds nothing, and
\* the other replies of the thread stay to be looked at
C29_ReplyLeft ==
    key_error' = "reply" =>
        /\ epc = "replies"
        /\ comments' = comments
        /\ replies_left' = replies_left - 1
        /\ epc' = IF replies_left' = 0 THEN "items" ELSE "replies"
        /\ UNCHANGED <<items_left, apis_called, extraction_info, page_count,
                       response_token, error>>

(***************************************************************************)
(* C29: a thread or a reply that lacks a field the loop reads is left      *)
(* without ending the call: nothing is raised, the page and the report     *)
(* stay as they are, and the items and replies that come after it are      *)
(* still looked at; what was added before it is kept.                      *)
(***************************************************************************)
C29_MalformedItemSkipped ==
    /\ []C29_KeyErrorCaught
    /\ [][C29_ThreadLeft /\ C29_ReplyLeft]_vars

\* the first reply of a thread had no snippet: the top-level comment of the
\* thread is kept and the second reply is still to be looked at
C29_Witness ==
    /\ key_error = "reply"
    /\ epc = "replies"
    /\ replies_left = 1
    /\ Len(comments) = 1
    /\ comments[1].type = "principal"
    /\ max_comments = 2

\* the comments of the list that have the given type
OfType(type) == {i \in DOMAIN comments : comments[i].type = type}

\* the types left out are not in the list, and no reply request is sent
\* when the replies are left out
C30_TypesHonoured ==
    /\ ~extract_main => OfType("principal") = {}
    /\ ~extract_replies =>
          /\ OfType("resposta") = {}
          /\ "comments" \notin apis_called
          /\ last_request.api # "comments"

\* a step that sends a reply request finds room in the budget after the
\* top-level comment of the thread, and asks for min(100, room) replies
C30_ReplyRequestInBudget ==
    last_request'.api = "comments" =>
        /\ epc = "items"
        /\ extract_replies
        /\ Len(comments') < max_comments
        /\ last_request'.maxResults =
              Smaller(PageSize, max_comments - Len(comments'))
        /\ last_request'.maxResults >= 1
        /\ "comments" \in apis_called'

(***************************************************************************)
(* C30: with extract_main false no comment of the list has type principal; *)
(* with extract_replies false none has type resposta and no reply request  *)
(* is sent; a reply request is sent for a thread only while the list holds *)
(* fewer than max_comments comments, and asks for at most                  *)
(* min(100, max_comments - len(comments)) replies.                         *)
(***************************************************************************)
C30_TypeFiltersAndReplyBudget ==
    /\ []C30_TypesHonoured
    /\ [][C30_ReplyRequestInBudget]_vars

\* with both types chosen and two comments asked for, the top-level comment
\* of a thread has been added and one reply has been asked for
C30_Witness ==
    /\ extract_main
    /\ extract_replies
    /\ max_comments = 2
    /\ last_request = Request("comments", 1, 0, FALSE)
    /\ Len(comments) = 1
    /\ epc = "replies"

\* the place of the last top-level comment before place i of the list, 0
\* where there is none
LastPrincipalBefore(i) ==
    LET ps == {j \in 1..(i - 1) : comments[j].type = "principal"}
    IN  IF ps = {} THEN 0 ELSE CHOOSE j \in ps : \A k \in ps : k <= j

\* parent_author is held by the replies and by no other comment
C31_ParentAuthorOnReplies ==
    \A i \in DOMAIN comments :
        (comments[i].parent_author # <<>>) <=> (comments[i].type = "resposta")

\* where the top-level comments are extracted, the parent_author of a reply
\* is the author of the top-level comment its thread added before it
C31_ParentIsThreadAuthor ==
    extract_main =>
        \A i \in DOMAIN comments :
            comments[i].type = "resposta" =>
                /\ LastPrincipalBefore(i) > 0
                /\ comments[i].parent_author =
                      <<comments[LastPrincipalBefore(i)].author>>

(***************************************************************************)
(* C31: every comment get_comments returns has a text that is not empty,   *)
(* and holds parent_author exactly when its type is resposta; the          *)
(* parent_author of a reply is the author of the top-level comment of its  *)
(* thread.                                                                 *)
(***************************************************************************)
C31_TextAndParentAuthor ==
    ExtractReturned =>
        /\ \A i \in DOMAIN comments : comments[i].text # ""
        /\ C31_ParentAuthorOnReplies
        /\ C31_ParentIsThreadAuthor

\* the comments a step has added at the end of the list, where it has left
\* the comments it found in their places
AddedAtEnd == SubSeq(comments', Len(comments) + 1, Len(comments'))

KeepsPlaces ==
    /\ Len(comments) <= Len(comments')
    /\ SubSeq(comments', 1, Len(comments)) = comments

\* every step leaves the comments it found where they are; the step of a
\* thread adds at most its top-level comment, the step of a reply at most
\* that reply, with the author of the thread looked at, and the last step
\* adds comments of the alternative step only
C32_AppendedInUpstreamOrder ==
    /\ KeepsPlaces
    /\ epc = "items" =>
          \/ comments' = comments
          \/ /\ extract_main
             /\ Len(AddedAtEnd) = 1
             /\ AddedAtEnd[1].type = "principal"
    /\ epc = "replies" =>
          \/ comments' = comments
          \/ /\ Len(AddedAtEnd) = 1
             /\ AddedAtEnd[1].type = "resposta"
             /\ AddedAtEnd[1].parent_author = <<AuthorOf(parent_author)>>
    /\ epc = "finalize" =>
          \A i \in DOMAIN AddedAtEnd : AddedAtEnd[i].type = "alternativo"
    /\ epc \notin {"items", "replies", "finalize"} => comments' = comments

\* a reply stands right after the top-level comment of its thread or after
\* another reply of that thread, and no paged comment stands after a comment
\* of the alternative step
C32_ThreadsContiguous ==
    /\ extract_main =>
          \A i \in DOMAIN comments :
              comments[i].type = "resposta" =>
                  /\ i > 1
                  /\ IF comments[i - 1].type = "principal"
                     THEN comments[i].parent_author =
                             <<comments[i - 1].author>>
                     ELSE /\ comments[i - 1].type = "resposta"
                          /\ comments[i - 1].parent_author =
                                comments[i].parent_author
    /\ \A i, j \in DOMAIN comments :
          (i < j /\ comments[i].type = "alternativo") =>
              comments[j].type = "alternativo"
    /\ OfType("alternativo") # {} => epc = "done"

(***************************************************************************)
(* C32: the comments are returned in the order they were added: the        *)
(* threads in the order of the upstream pages, the top-level comment of a  *)
(* thread, where it is extracted, right before the replies of that thread, *)
(* the replies in upstream order, and the comments of the alternative step *)
(* after all the paged comments.                                           *)
(***************************************************************************)
C32_InsertionOrder ==
    /\ []C32_ThreadsContiguous
    /\ [][C32_AppendedInUpstreamOrder]_vars

\* the call has returned the top-level comment of a thread of the second
\* page followed by a reply of that thread
C32_Witness ==
    /\ ExtractReturned
    /\ page_count = 2
    /\ Len(comments) = 2
    /\ comments[1] = PrincipalComment("ana")
    /\ comments[2] = ReplyComment("bia", "ana")

\* the step just taken has looked at a thread whose top-level comment has no
\* text
EmptyTextThread == item'.seen /\ item'.empty_text

\* with the top-level comments extracted the thread adds nothing and no
\* request for its replies is sent
C33_SkippedWithMain ==
    (EmptyTextThread /\ extract_main) =>
        /\ comments' = comments
        /\ last_request'.api # "comments"
        /\ apis_called' = apis_called
        /\ replies_left' = 0
        /\ key_error' = "none"
        /\ epc' = "items"

\* without them the text is not looked at: the replies are asked for under
\* the condition of line 205 alone
C33_RepliesWithoutMain ==
    (EmptyTextThread /\ ~extract_main) =>
        /\ comments' = comments
        /\ (last_request'.api = "comments") <=>
              (extract_replies /\ item'.listable
                  /\ Len(comments) < max_comments)

(***************************************************************************)
(* C33: with extract_main true, a thread whose top-level comment has no    *)
(* text or a text of white space is skipped as a whole: no principal       *)
(* comment is added and no request for its replies is sent, extract_replies*)
(* or not; with extract_main false the text is not looked at and the       *)
(* replies of the same thread are asked for.                               *)
(***************************************************************************)
C33_EmptyTextThreadSkipped ==
    [][C33_SkippedWithMain /\ C33_RepliesWithoutMain]_vars

\* without the top-level comments, a thread without text has been looked at
\* and its replies, asked for, are about to be added
C33_Witness ==
    /\ item.seen
    /\ item.empty_text
    /\ ~extract_main
    /\ extract_replies
    /\ last_request.api = "comments"
    /\ epc = "replies"
    /\ replies_left > 0

\* the step just taken has sent the request for the replies of a thread and
\* the request has raised
ReplyRequestFailed ==
    /\ item'.seen
    /\ last_request'.api = "comments"
    /\ item'.outcome \in {"error", "failure"}

\* what the step of a thread leaves behind when the failure of the request
\* is taken by the handler: nothing but the top-level comment of the thread
\* is added, no reason is added, no exception is raised, and the loop over
\* the items of the page goes on
ReplyFailureTolerated ==
    /\ extraction_info' = extraction_info
    /\ comments' = IF extract_main
                   THEN Append(comments, comments'[Len(comments')])
                   ELSE comments
    /\ extract_main => comments'[Len(comments')].type = "principal"
    /\ error' = "none"
    /\ epc' = "items"
    /\ items_left' = items_left - 1
    /\ page_count' = page_count
    /\ response_token' = response_token

\* a failed request for replies is tolerated, whatever the exception
C34_AnyReplyFailure ==
    ReplyRequestFailed => ReplyFailureTolerated

(***************************************************************************)
(* C34 as stated: a failed request for the replies of a thread does not    *)
(* end the extraction and adds no reason: the top-level comment of the     *)
(* thread is kept, the other threads and pages are processed, and          *)
(* get_comments returns.                                                   *)
(***************************************************************************)
C34_ReplyFailureNeverAborts == [][C34_AnyReplyFailure]_vars

\* a request for replies that raised an HttpError is tolerated; one that
\* raised an exception of another class ends get_comments with that
\* exception, no reason added
C34_HttpErrorOnly ==
    /\ (ReplyRequestFailed /\ item'.outcome = "error") =>
          ReplyFailureTolerated
    /\ (ReplyRequestFailed /\ item'.outcome = "failure") =>
          /\ extraction_info' = extraction_info
          /\ error' = "Exception"
          /\ epc' = "raised"

\* a call that a failed request for replies has ended returns nothing; the
\* others come to their return
C34_EndsAfterFailure ==
    /\ item.outcome = "failure" => epc = "raised"
    /\ item.outcome = "error" => epc = "items"
    /\ (epc = "done" /\ "comments" \in apis_called) => error = "none"

(***************************************************************************)
(* C34, amended: a request for the replies of a thread that fails with an  *)
(* HttpError does not end the extraction and adds no reason: the top-level *)
(* comment of the thread is kept and the loop goes on with the next        *)
(* thread; a request that fails with an exception of another class ends    *)
(* get_comments with that exception.                                       *)
(***************************************************************************)
C34_ReplyHttpErrorTolerated ==
    /\ []C34_EndsAfterFailure
    /\ [][C34_HttpErrorOnly]_vars

\* the request for the replies of a thread has raised an HttpError: the
\* top-level comment of the thread is held, the loop over the items goes on
\* and a further page is there to ask for
C34_Witness ==
    /\ item.seen
    /\ item.outcome = "error"
    /\ last_request.api = "comments"
    /\ Len(comments) = 1
    /\ comments[1].type = "principal"
    /\ max_comments = 2
    /\ response_token
    /\ epc = "items"
    /\ error = "none"
    /\ extraction_info.reasons = <<>>

====
